---- MODULE Spec2Model ----
(***************************************************************************)
(* Model of the targets-from-pathways scoring and aggregation pipeline.    *)
(*                                                                         *)
(*   Spec       run.py main: parse_pathway_mapping, parse_disease_pathways,*)
(*              get_disease_genes, get_target_genes, find_overlap,         *)
(*              calculate_scores, scores_to_TSV                            *)
(*   SpecScore  calculate_scores called directly on arbitrary arguments    *)
(*   SpecSid    functions/sid.py: the cached loaders and the GSEA input    *)
(*   SpecParquet  gsea/data_parser.py parse_associations_parquet           *)
(*   SpecBH     gsea/run_gsea.py run_gsea_from_tsv, the q-value column      *)
(*   SpecTerm   gsea/run_gsea.py run_gsea_from_tsv, the Term and ID columns *)
(*   SpecFilter gsea/run_gsea.py filter_pathway_ids_by_pvalue               *)
(*   SpecMapping  data_parser.py parse_pathway_mapping on a given file     *)
(*   SpecInteractions  data_parser.py parse_interactions and the network   *)
(*   SpecTwoColumn  functions/sid.py two_column_tsv_to_dict                *)
(*   SpecGeneMaps, SpecTargetParquet  the gene maps of functions/sid.py    *)
(*              and gsea/data_parser.py parse_target_parquet               *)
(*   SpecSidCalls  functions/sid.py: calls of the public functions on a    *)
(*              given file system and environment                          *)
(*   SpecGmt    the GMT parsers load_custom_gmt and parse_gmt_file         *)
(*   SpecOverlap  find_overlap run again on the same arguments             *)
(*                                                                         *)
(* Scores are rationals kept as <<numerator, denominator>> pairs.  Python  *)
(* dicts are functions whose DOMAIN is the key set; Python lists are       *)
(* sequences.  Strings that the code splits or matches are sequences of    *)
(* one-character strings.                                                  *)
(***************************************************************************)
EXTENDS Integers, Sequences, FiniteSets, TLC

VARIABLES
    \* ---- run.py main and data_parser.py ----
    pc,               \* position of main
    nread,            \* lines of the mapping file consumed so far
    gene2pathways,    \* parse_pathway_mapping local: gene -> list of pathway IDs
    pathway2genes,    \* parse_pathway_mapping local: pathway ID -> list of genes
    index,            \* main's (gene2pathways, pathway2genes) once the parser returned
    target,           \* main's target argument
    disease_pathways, \* list read by parse_disease_pathways
    disease_genes,    \* set returned by get_disease_genes
    target_genes,     \* set returned by get_target_genes
    overlap,          \* list returned by find_overlap
    scores,           \* dict returned by calculate_scores
    err,              \* exception that ended the run ("" while none)
    stdout,           \* lines printed by scores_to_TSV
    \* ---- functions/sid.py ----
    GENE_NAME_TO_ID,    \* global cache: symbol -> target ID
    GENE_ID_TO_NAME,    \* global cache: target ID -> symbol (insertion-ordered)
    DISEASE_NAME_TO_ID, \* global cache: disease name -> disease ID
    DISEASE_ASSOC_DATA, \* global cache: the association table
    sid_pc,             \* "idle", or the loader the running call is about to enter
    sid_call,           \* the public function last called, with its arguments
    sid_agg,            \* build_gsea_input_for_disease_id local agg: targetId -> score
    sid_out,            \* the table the last call returned
    sid_err,            \* the exception the last call raised ("" if none)
    \* ---- gsea/data_parser.py parse_associations_parquet ----
    pq_pc,              \* position in parse_associations_parquet
    pq_dir,             \* the partitions of the associations directory
    pq_args,            \* the disease and datatype arguments
    parquet_files,      \* the files still to read, in os.listdir order
    pq_dfp,             \* the local dfp: the frame read last
    target2score,       \* the dict being built
    pq_err,             \* the exception raised ("" if none)
    \* ---- gsea/run_gsea.py run_gsea_from_tsv: the q-value column ----
    bh_pc,              \* "result" once blitz.gsea returned, "done" after line 76
    res_cols,           \* which of the columns pval and qval res_df has
    res_pval,           \* res_df["pval"], one rational or NaN per row
    res_qval,           \* res_df["qval"], one rational per row
    bh_order,           \* the local order: row labels by ascending p-value
    \* ---- gsea/run_gsea.py run_gsea_from_tsv: the Term and ID columns ----
    tm_pc,              \* "result" once blitz.gsea returned, "done" after line 54
    term_label,         \* a value of res_df["Term"] as blitz.gsea returned it
    term_id,            \* the row's res_df["ID"]
    term_name,          \* the row's res_df["Term"] after line 54
    \* ---- gsea/run_gsea.py filter_pathway_ids_by_pvalue ----
    ft_pc,              \* "call", then "returned" or "raised"
    ft_df,              \* the argument gsea_results: its columns and rows
    ft_args,            \* pval_threshold, fdr_threshold, nes_positive
    ft_out,             \* the pathwayId column of the frame returned
    ft_err,             \* the exception raised ("" if none)
    \* ---- data_parser.py parse_pathway_mapping on a given file ----
    mapping_file,       \* the split lines of the mapping file (<<>> while main draws them as it reads)
    \* ---- data_parser.py parse_interactions and the network main builds ----
    in_pc,              \* position in parse_interactions and the tail of main
    interactions_file,  \* the first line and the split records of the interactions file
    in_nread,           \* records consumed so far
    interactions,       \* the list of (gene, gene) tuples being built
    network,            \* the graph networkx.from_edgelist returned
    in_err,             \* the message of the exception raised ("" if none)
    \* ---- functions/sid.py _load_two_column_tsv_to_map on a given file ----
    tc_pc,              \* "call", then "returned" or "raised"
    tc_df,              \* the frame read_csv returned: its column count and rows
    mapped,             \* the dict returned (insertion-ordered)
    tc_err,             \* the exception raised ("" if none)
    \* ---- functions/sid.py _load_gene_maps and gsea/data_parser.py
    \* ---- parse_target_parquet on a given directory ----
    gm_pc,              \* "listdir", "load", then "returned" or "raised"
    target_dir,         \* the directory: file name -> partition
    gm_listing,         \* the names os.listdir returned, in its order
    gm_id_to_symbol,    \* the id -> symbol dict built (id_to_symbol, target2symbol)
    gm_name_to_id,      \* the local name_to_id, assigned to GENE_NAME_TO_ID
    gm_err,             \* the exception raised ("" if none)
    \* ---- functions/sid.py: the data sources and the public functions ----
    ASSOCIATIONS_DIR,   \* global: the configured association directory, or None
    ASSOCIATIONS_TSV,   \* global: the configured association TSV, or None
    TARGET_DIR,         \* global: the configured target directory, or None
    environ,            \* os.environ: SID_ASSOCIATIONS_DIR, SID_ASSOCIATIONS_TSV, SID_TARGET_DIR
    fs,                 \* the file system: path -> what is found there
    sid_ret,            \* the values the last call returned (<<>> if none)
    \* ---- gsea/run_gsea.py load_custom_gmt and gsea/data_parser.py parse_gmt_file ----
    gmt_pc,             \* "call" or "parse", then "returned" or "raised"
    gmt_parser,         \* which of the two parsers runs
    gmt_file,           \* the lines of the GMT file, each split at its tabs
    gmt_nread,          \* lines consumed so far by parse_gmt_file
    gmt_pathways,       \* the dict being built: term -> list of genes (insertion-ordered)
    gmt_err,            \* the message of the exception raised ("" if none)
    \* ---- run.py find_overlap run twice on the same arguments ----
    ov_list1,           \* the argument list1
    ov_list2,           \* the argument list2
    hash_order,         \* the order in which the sets of the running process list the genes (<<>>: no process)
    ov_out              \* the lists returned so far, one per run

pipeVars == <<pc, nread, gene2pathways, pathway2genes, index, target,
              disease_pathways, disease_genes, target_genes, overlap, scores,
              err, stdout>>

sidVars == <<GENE_NAME_TO_ID, GENE_ID_TO_NAME, DISEASE_NAME_TO_ID, DISEASE_ASSOC_DATA,
             sid_pc, sid_call, sid_agg, sid_out, sid_err>>

pqVars == <<pq_pc, pq_dir, pq_args, parquet_files, pq_dfp, target2score, pq_err>>

bhVars == <<bh_pc, res_cols, res_pval, res_qval, bh_order>>

tmVars == <<tm_pc, term_label, term_id, term_name>>

ftVars == <<ft_pc, ft_df, ft_args, ft_out, ft_err>>

mapVars == <<mapping_file>>

inVars == <<in_pc, interactions_file, in_nread, interactions, network, in_err>>

tcVars == <<tc_pc, tc_df, mapped, tc_err>>

gmVars == <<gm_pc, target_dir, gm_listing, gm_id_to_symbol, gm_name_to_id, gm_err>>

cfgVars == <<ASSOCIATIONS_DIR, ASSOCIATIONS_TSV, TARGET_DIR, environ, fs, sid_ret>>

gmtVars == <<gmt_pc, gmt_parser, gmt_file, gmt_nread, gmt_pathways, gmt_err>>

ovVars == <<ov_list1, ov_list2, hash_order, ov_out>>

vars == <<pipeVars, sidVars, pqVars, bhVars, tmVars, ftVars, mapVars, inVars, tcVars, gmVars,
          cfgVars,
          gmtVars,
          ovVars>>

\* the variables each part of the model leaves alone
notPipe == <<sidVars, pqVars, bhVars, tmVars, ftVars, mapVars, inVars, tcVars, gmVars, cfgVars, gmtVars, ovVars>>
notSid  == <<pipeVars, pqVars, bhVars, tmVars, ftVars, mapVars, inVars, tcVars, gmVars, cfgVars, gmtVars, ovVars>>
notPq   == <<pipeVars, sidVars, bhVars, tmVars, ftVars, mapVars, inVars, tcVars, gmVars, cfgVars, gmtVars, ovVars>>
notBH   == <<pipeVars, sidVars, pqVars, tmVars, ftVars, mapVars, inVars, tcVars, gmVars, cfgVars, gmtVars, ovVars>>
notTerm == <<pipeVars, sidVars, pqVars, bhVars, ftVars, mapVars, inVars, tcVars, gmVars, cfgVars, gmtVars, ovVars>>
notFilter == <<pipeVars, sidVars, pqVars, bhVars, tmVars, mapVars, inVars, tcVars, gmVars, cfgVars, gmtVars, ovVars>>
gseaVars == <<bhVars, tmVars, ftVars>>
\* parse_pathway_mapping on a given file works on main's variables
notMapping == <<sidVars, pqVars, gseaVars, inVars, tcVars, gmVars, cfgVars, gmtVars, ovVars>>
notInteractions == <<pipeVars, sidVars, pqVars, gseaVars, mapVars, tcVars, gmVars, cfgVars, gmtVars, ovVars>>
notTwoColumn == <<pipeVars, sidVars, pqVars, gseaVars, mapVars, inVars, gmVars, cfgVars, gmtVars, ovVars>>
notGeneMaps == <<pipeVars, sidVars, pqVars, gseaVars, mapVars, inVars, tcVars, cfgVars, gmtVars, ovVars>>
\* the public functions of sid.py work on the caches of sidVars and on cfgVars
notSidCalls == <<pipeVars, pqVars, gseaVars, mapVars, inVars, tcVars, gmVars, gmtVars, ovVars>>
notGmt == <<pipeVars, sidVars, pqVars, gseaVars, mapVars, inVars, tcVars, gmVars, cfgVars, ovVars>>
notOverlap == <<pipeVars, sidVars, pqVars, gseaVars, mapVars, inVars, tcVars, gmVars, cfgVars, gmtVars>>

----------------------------------------------------------------------------
\* Bounds of the pipeline model
MaxRecords == 3
MaxDisease == 2

\* Program constant: number of tab-separated fields of a mapping record
NFields == 8

PathwayIDs == {"P1", "P2"}
Species    == {"Homo sapiens", "Mus musculus"}
\* free-text gene labels, as character sequences
GeneLabels == {<<"A">>, <<"B">>, <<"A", " ", "x">>}
\* gene names the caller may pass as target
GeneNames  == {<<"A">>, <<"B">>}

----------------------------------------------------------------------------
\* Generic helpers for lists, dicts and rationals

EmptyDict == [k \in {} |-> <<>>]

Range(s) == {s[i] : i \in 1..Len(s)}

\* all sequences over S of length at most n
SeqsUpTo(S, n) == UNION {[1..k -> S] : k \in 0..n}

\* all orderings of the finite set S, as sequences without repetition
Perms(S) == {s \in [1..Cardinality(S) -> S] : \A i, j \in 1..Cardinality(S) : s[i] = s[j] => i = j}

\* number of positions of list s holding x
Count(s, x) == Cardinality({i \in 1..Len(s) : s[i] = x})

\* d[key].append(v), creating the list when the key is new
DictAppend(d, key, v) ==
    [k \in DOMAIN d \cup {key} |->
        IF k = key
        THEN (IF key \in DOMAIN d THEN Append(d[key], v) ELSE <<v>>)
        ELSE d[k]]

\* q1 = q2 for rationals <<num, den>> with positive denominators
RatEq(q1, q2) == q1[1] * q2[2] = q2[1] * q1[2]
RatLeq(q1, q2) == q1[1] * q2[2] <= q2[1] * q1[2]

----------------------------------------------------------------------------
\* The values each part of the model holds while another part runs

Unset == [set |-> FALSE, items |-> <<>>]
UnsetTable == [set |-> FALSE, has_datatype |-> FALSE, rows |-> <<>>]
NoCall == [op |-> "none", disease_id |-> "None", datatype |-> "None"]

IdleSid ==
    /\ GENE_NAME_TO_ID = Unset
    /\ GENE_ID_TO_NAME = Unset
    /\ DISEASE_NAME_TO_ID = Unset
    /\ DISEASE_ASSOC_DATA = UnsetTable
    /\ sid_pc = "idle"
    /\ sid_call = NoCall
    /\ sid_agg = EmptyDict
    /\ sid_out = <<>>
    /\ sid_err = ""

IdlePq ==
    /\ pq_pc = "off"
    /\ pq_dir = <<>>
    /\ pq_args = [disease |-> "None", datatype |-> "None"]
    /\ parquet_files = <<>>
    /\ pq_dfp = [bound |-> FALSE, rows |-> <<>>]
    /\ target2score = EmptyDict
    /\ pq_err = ""

IdleBH ==
    /\ bh_pc = "off"
    /\ res_cols = [pval |-> FALSE, qval |-> FALSE]
    /\ res_pval = <<>>
    /\ res_qval = <<>>
    /\ bh_order = <<>>

IdleTerm ==
    /\ tm_pc = "off"
    /\ term_label = <<>>
    /\ term_id = <<>>
    /\ term_name = <<>>

NoThreshold == [given |-> FALSE, value |-> 0]

IdleFilter ==
    /\ ft_pc = "off"
    /\ ft_df = [cols |-> {}, rows |-> <<>>]
    /\ ft_args = [pval_threshold |-> NoThreshold, fdr_threshold |-> NoThreshold,
                  nes_positive |-> FALSE]
    /\ ft_out = <<>>
    /\ ft_err = ""

IdleGsea == IdleBH /\ IdleTerm /\ IdleFilter

IdleMap == mapping_file = <<>>

NoFile == [first_line |-> <<>>, records |-> <<>>]
NoNetwork == [built |-> FALSE, nodes |-> {}, edges |-> {}]

IdleInteractions ==
    /\ in_pc = "off"
    /\ interactions_file = NoFile
    /\ in_nread = 0
    /\ interactions = <<>>
    /\ network = NoNetwork
    /\ in_err = ""

IdleTwoColumn ==
    /\ tc_pc = "off"
    /\ tc_df = [ncols |-> 0, rows |-> <<>>]
    /\ mapped = <<>>
    /\ tc_err = ""

IdleGeneMaps ==
    /\ gm_pc = "off"
    /\ target_dir = <<>>
    /\ gm_listing = <<>>
    /\ gm_id_to_symbol = <<>>
    /\ gm_name_to_id = <<>>
    /\ gm_err = ""

IdleLoaders == IdleTwoColumn /\ IdleGeneMaps

IdleCfg ==
    /\ ASSOCIATIONS_DIR = "None"
    /\ ASSOCIATIONS_TSV = "None"
    /\ TARGET_DIR = "None"
    /\ environ = <<>>
    /\ fs = <<>>
    /\ sid_ret = <<>>

IdleGmt ==
    /\ gmt_pc = "off"
    /\ gmt_parser = "none"
    /\ gmt_file = <<>>
    /\ gmt_nread = 0
    /\ gmt_pathways = <<>>
    /\ gmt_err = ""

IdleOverlap ==
    /\ ov_list1 = <<>>
    /\ ov_list2 = <<>>
    /\ hash_order = <<>>
    /\ ov_out = <<>>

IdleRest == IdleMap /\ IdleInteractions /\ IdleLoaders /\ IdleCfg /\ IdleGmt /\ IdleOverlap

IdlePipe ==
    /\ pc = "off"
    /\ nread = 0
    /\ gene2pathways = EmptyDict
    /\ pathway2genes = EmptyDict
    /\ index = [set |-> FALSE, gene2pathways |-> EmptyDict, pathway2genes |-> EmptyDict]
    /\ target = <<>>
    /\ disease_pathways = <<>>
    /\ disease_genes = {}
    /\ target_genes = {}
    /\ overlap = <<>>
    /\ scores = EmptyDict
    /\ err = ""
    /\ stdout = <<>>

----------------------------------------------------------------------------
\* data_parser.py

\* gene.split(" ")[0]
RECURSIVE FirstToken(_)
FirstToken(gene) ==
    IF gene = <<>> \/ Head(gene) = " " THEN <<>>
    ELSE <<Head(gene)>> \o FirstToken(Tail(gene))

\* the split lines a mapping file can hold: 8 fields, or a bad line of 7
MappingLines ==
    {<<"ENSG", "1", g, p, "url", "name", "TAS", s>> :
        g \in GeneLabels, p \in PathwayIDs, s \in Species}
    \cup {<<"ENSG", "1", <<"A">>, "P1", "url", "name", "TAS">>}

\* a parser that creates the list of a new gene without its first pathway
InsertGene2PathwaysEmptyKey(g2p, gene_name, pathwayID) ==
    IF gene_name \in DOMAIN g2p THEN DictAppend(g2p, gene_name, pathwayID)
    ELSE [k \in DOMAIN g2p \cup {gene_name} |-> IF k = gene_name THEN <<>> ELSE g2p[k]]

\* lines 42-45: gene2pathways[gene_name].append(pathwayID), or a new list
InsertGene2Pathways(g2p, gene_name, pathwayID) == DictAppend(g2p, gene_name, pathwayID)

\* a parser that restarts the pathway's gene list on every record
InsertPathway2GenesOverwrite(p2g, pathwayID, gene_name) ==
    [k \in DOMAIN p2g \cup {pathwayID} |-> IF k = pathwayID THEN <<gene_name>> ELSE p2g[k]]

\* lines 47-50: pathway2genes[pathwayID].append(gene_name), or a new list
InsertPathway2Genes(p2g, pathwayID, gene_name) == DictAppend(p2g, pathwayID, gene_name)

NoIndex == [set |-> FALSE, gene2pathways |-> EmptyDict, pathway2genes |-> EmptyDict]

\* rank of a character in string comparison (code point order)
CharRank(c) == CASE c = " " -> 0 [] c = "A" -> 1 [] c = "B" -> 2 [] OTHER -> 3

\* s1 < s2 for Python strings
RECURSIVE StrLess(_, _)
StrLess(s1, s2) ==
    IF s2 = <<>> THEN FALSE
    ELSE IF s1 = <<>> THEN TRUE
    ELSE IF Head(s1) = Head(s2) THEN StrLess(Tail(s1), Tail(s2))
    ELSE CharRank(Head(s1)) < CharRank(Head(s2))

\* sorted(scores.items()): keys are distinct, so the order is the key order
SortedItems(d) ==
    CHOOSE s \in [1..Cardinality(DOMAIN d) -> {<<k, d[k]>> : k \in DOMAIN d}] :
        \A i, j \in 1..Cardinality(DOMAIN d) : i < j => StrLess(s[i][1], s[j][1])

\* the lines scores_to_TSV prints: a header, then one line per gene
scores_to_TSV(d) == <<<<"GENE", "SCORE">>>> \o SortedItems(d)

----------------------------------------------------------------------------
\* run.py (reactome/run_reactome.py holds the same functions)

Raise(e) == [raised |-> e, value |-> {}]
Return(v) == [raised |-> "", value |-> v]

\* get_disease_genes: the loop over disease_pathways, adding each path's genes
RECURSIVE disease_genes_loop(_, _, _)
disease_genes_loop(p2g, paths, acc) ==
    IF paths = <<>> THEN Return(acc)
    ELSE IF Head(paths) \notin DOMAIN p2g THEN Raise("KeyError")
    ELSE disease_genes_loop(p2g, Tail(paths), acc \cup Range(p2g[Head(paths)]))

\* a lookup that passes over the pathway IDs the index does not hold
get_disease_genes_known(p2g, paths) ==
    Return(UNION {Range(p2g[p]) : p \in Range(paths) \cap DOMAIN p2g})

get_disease_genes(p2g, paths) == disease_genes_loop(p2g, paths, {})

\* get_target_genes: the loop over the target's pathways
RECURSIVE target_genes_loop(_, _, _)
target_genes_loop(p2g, paths, acc) ==
    IF paths = <<>> THEN Return(acc)
    ELSE IF Head(paths) \notin DOMAIN p2g THEN Raise("KeyError")
    ELSE target_genes_loop(p2g, Tail(paths), acc \cup Range(p2g[Head(paths)]))

\* a lookup that takes an unknown target as a gene without pathways
get_target_genes_default(g2p, p2g, tgt) ==
    IF tgt \notin DOMAIN g2p THEN Return({})
    ELSE target_genes_loop(p2g, g2p[tgt], {})

get_target_genes(g2p, p2g, tgt) ==
    IF tgt \notin DOMAIN g2p THEN Raise("KeyError")
    ELSE target_genes_loop(p2g, g2p[tgt], {})

\* find_overlap: set(list1) & set(list2); the callers pass the element sets
find_overlap(set1, set2) == set1 \cap set2

\* list(a_set): any order of the elements (string hashing is seeded per process)
ListsOf(S) == Perms(S)

\* a count of the entries of gene_paths found in the disease list, repeats included
DiseasePathsWithGeneEntries(gene_paths, paths) ==
    Cardinality({i \in 1..Len(gene_paths) : gene_paths[i] \in Range(paths)})

\* len(find_overlap(gene_paths, disease_pathways))
DiseasePathsWithGene(gene_paths, paths) ==
    Cardinality(find_overlap(Range(gene_paths), Range(paths)))

\* the target_path_count loop of calculate_scores
RECURSIVE TargetPathCount(_, _, _)
TargetPathCount(p2g, target_paths, gene) ==
    IF target_paths = <<>> THEN 0
    ELSE (IF gene \in Range(p2g[Head(target_paths)]) THEN 1 ELSE 0)
         + TargetPathCount(p2g, Tail(target_paths), gene)

\* the two operands of the division in calculate_scores
ScoreNumerator(g2p, p2g, paths, tgt, gene) ==
    DiseasePathsWithGene(g2p[gene], paths) + TargetPathCount(p2g, g2p[tgt], gene)

ScoreDenominator(g2p, paths, tgt) == Len(paths) + Len(g2p[tgt])

\* calculate_scores: the loop over genes, filling the scores dict
RECURSIVE scores_loop(_, _, _, _, _, _)
scores_loop(genes, g2p, p2g, paths, tgt, acc) ==
    IF genes = <<>> THEN Return(acc)
    ELSE LET gene == Head(genes) IN
         IF gene \notin DOMAIN g2p \/ tgt \notin DOMAIN g2p THEN Raise("KeyError")
         ELSE IF \E i \in 1..Len(g2p[tgt]) : g2p[tgt][i] \notin DOMAIN p2g THEN Raise("KeyError")
         ELSE IF ScoreDenominator(g2p, paths, tgt) = 0 THEN Raise("ZeroDivisionError")
         ELSE scores_loop(Tail(genes), g2p, p2g, paths, tgt,
                  [k \in DOMAIN acc \cup {gene} |->
                      IF k = gene
                      THEN <<ScoreNumerator(g2p, p2g, paths, tgt, gene),
                             ScoreDenominator(g2p, paths, tgt)>>
                      ELSE acc[k]])

calculate_scores(genes, g2p, p2g, paths, tgt) ==
    scores_loop(genes, g2p, p2g, paths, tgt, EmptyDict)

----------------------------------------------------------------------------
\* run.py main, one action per step

InitPipe ==
    /\ pc = "open"
    /\ nread = 0
    /\ gene2pathways = EmptyDict
    /\ pathway2genes = EmptyDict
    /\ index = NoIndex
    /\ target \in GeneNames
    /\ disease_pathways = <<>>
    /\ disease_genes = {}
    /\ target_genes = {}
    /\ overlap = <<>>
    /\ scores = EmptyDict
    /\ err = ""
    /\ stdout = <<>>
    /\ IdleSid
    /\ IdlePq
    /\ IdleGsea
    /\ IdleRest

Fail(e) ==
    /\ pc' = "failed"
    /\ err' = e

\* parse_pathway_mapping: open(pathway_mapping_file)
OpenMapping ==
    /\ pc = "open"
    /\ \E exists \in BOOLEAN :
          IF exists THEN pc' = "parse" /\ err' = err
          ELSE Fail("Exception")
    /\ UNCHANGED <<nread, gene2pathways, pathway2genes, index, target, disease_pathways,
                   disease_genes, target_genes, overlap, scores, stdout>>
    /\ UNCHANGED notPipe

\* a test that lets lines of more than 8 fields through
BadLineShort(split_line) == Len(split_line) < NFields

\* line 30: len(split_line) != 8
BadLine(split_line) == Len(split_line) # NFields

\* a test that also takes the lower-case spelling of the organism
SkipsOtherSpelling(split_line) == split_line[8] \notin {"Homo sapiens", "homo sapiens"}

\* line 37: species != "Homo sapiens"
SkipsRecord(split_line) == split_line[8] # "Homo sapiens"

\* lines 28-50: the body of "for line in f" on one split line
ParseRecord(split_line) ==
    IF BadLine(split_line)
    THEN /\ Fail("Exception")
         /\ UNCHANGED <<gene2pathways, pathway2genes>>
    ELSE IF SkipsRecord(split_line)
    THEN UNCHANGED <<pc, err, gene2pathways, pathway2genes>>
    ELSE LET gene_name == FirstToken(split_line[3])
             pathwayID == split_line[4]
         IN  /\ gene2pathways' = InsertGene2Pathways(gene2pathways, gene_name, pathwayID)
             /\ pathway2genes' = InsertPathway2Genes(pathway2genes, pathwayID, gene_name)
             /\ UNCHANGED <<pc, err>>

\* parse_pathway_mapping: one iteration of "for line in f"
ParseLine ==
    /\ pc = "parse"
    /\ nread < MaxRecords
    /\ \E split_line \in MappingLines : ParseRecord(split_line)
    /\ nread' = nread + 1
    /\ UNCHANGED <<index, target, disease_pathways, disease_genes, target_genes,
                   overlap, scores, stdout>>
    /\ UNCHANGED notPipe

\* parse_pathway_mapping: end of file, return(gene2pathways, pathway2genes)
ParseReturn ==
    /\ pc = "parse"
    /\ index' = [set |-> TRUE, gene2pathways |-> gene2pathways,
                 pathway2genes |-> pathway2genes]
    /\ pc' = "read_ids"
    /\ UNCHANGED <<nread, gene2pathways, pathway2genes, target, disease_pathways,
                   disease_genes, target_genes, overlap, scores, err, stdout>>
    /\ UNCHANGED notPipe

\* parse_disease_pathways: header skipped, one ID per following line
ReadDiseasePathways ==
    /\ pc = "read_ids"
    /\ \E exists \in BOOLEAN :
          IF exists
          THEN \E list \in SeqsUpTo(PathwayIDs, MaxDisease) :
                  /\ disease_pathways' = list
                  /\ pc' = "disease_genes"
                  /\ err' = err
          ELSE Fail("FileNotFoundError") /\ UNCHANGED disease_pathways
    /\ UNCHANGED <<nread, gene2pathways, pathway2genes, index, target,
                   disease_genes, target_genes, overlap, scores, stdout>>
    /\ UNCHANGED notPipe

GetDiseaseGenes ==
    /\ pc = "disease_genes"
    /\ LET r == get_disease_genes(index.pathway2genes, disease_pathways) IN
          IF r.raised # "" THEN Fail(r.raised) /\ UNCHANGED disease_genes
          ELSE disease_genes' = r.value /\ pc' = "target_genes" /\ err' = err
    /\ UNCHANGED <<nread, gene2pathways, pathway2genes, index, target, disease_pathways,
                   target_genes, overlap, scores, stdout>>
    /\ UNCHANGED notPipe

GetTargetGenes ==
    /\ pc = "target_genes"
    /\ LET r == get_target_genes(index.gene2pathways, index.pathway2genes, target) IN
          IF r.raised # "" THEN Fail(r.raised) /\ UNCHANGED target_genes
          ELSE target_genes' = r.value /\ pc' = "overlap" /\ err' = err
    /\ UNCHANGED <<nread, gene2pathways, pathway2genes, index, target, disease_pathways,
                   disease_genes, overlap, scores, stdout>>
    /\ UNCHANGED notPipe

FindOverlap ==
    /\ pc = "overlap"
    /\ overlap' \in ListsOf(find_overlap(disease_genes, target_genes))
    /\ pc' = "score"
    /\ UNCHANGED <<nread, gene2pathways, pathway2genes, index, target, disease_pathways,
                   disease_genes, target_genes, scores, err, stdout>>
    /\ UNCHANGED notPipe

\* a main that prints the header of the table before it computes the scores
CalculateScoresHeaderFirst ==
    /\ pc = "score"
    /\ stdout' = <<<<"GENE", "SCORE">>>>
    /\ LET r == calculate_scores(overlap, index.gene2pathways, index.pathway2genes,
                                 disease_pathways, target) IN
          IF r.raised # "" THEN Fail(r.raised) /\ UNCHANGED scores
          ELSE scores' = r.value /\ pc' = "write" /\ err' = err
    /\ UNCHANGED <<nread, gene2pathways, pathway2genes, index, target, disease_pathways,
                   disease_genes, target_genes, overlap>>
    /\ UNCHANGED notPipe

CalculateScores ==
    /\ pc = "score"
    /\ LET r == calculate_scores(overlap, index.gene2pathways, index.pathway2genes,
                                 disease_pathways, target) IN
          IF r.raised # "" THEN Fail(r.raised) /\ UNCHANGED scores
          ELSE scores' = r.value /\ pc' = "write" /\ err' = err
    /\ UNCHANGED <<nread, gene2pathways, pathway2genes, index, target, disease_pathways,
                   disease_genes, target_genes, overlap, stdout>>
    /\ UNCHANGED notPipe

ScoresToTSV ==
    /\ pc = "write"
    /\ stdout' = scores_to_TSV(scores)
    /\ pc' = "scored"
    /\ UNCHANGED <<nread, gene2pathways, pathway2genes, index, target, disease_pathways,
                   disease_genes, target_genes, overlap, scores, err>>
    /\ UNCHANGED notPipe

Init == InitPipe

Next ==
    \/ OpenMapping
    \/ ParseLine
    \/ ParseReturn
    \/ ReadDiseasePathways
    \/ GetDiseaseGenes
    \/ GetTargetGenes
    \/ FindOverlap
    \/ CalculateScores
    \/ ScoresToTSV

Spec == Init /\ [][Next]_vars

----------------------------------------------------------------------------
\* parse_pathway_mapping on a file fixed in advance

MaxFileLines == 2

\* labels with and without a space, one starting with a space
FileGeneLabels == {<<"A">>, <<"B", " ", "x">>, <<" ", "A">>}
FileSpecies == {"Homo sapiens", "Mus musculus", "homo sapiens"}

\* the split lines of the file: 8 fields, or a bad line of 7 or of 9
MappingFileLines ==
    {<<"ENSG", "1", g, p, "url", "name", "TAS", s>> :
        g \in FileGeneLabels, p \in PathwayIDs, s \in FileSpecies}
    \cup {<<"ENSG", "1", <<"A">>, "P1", "url", "name", "TAS">>,
          <<"ENSG", "1", <<"A">>, "P1", "url", "name", "TAS", "Homo sapiens", "extra">>}

InitMapping ==
    /\ pc = "open"
    /\ mapping_file \in SeqsUpTo(MappingFileLines, MaxFileLines)
    /\ nread = 0
    /\ gene2pathways = EmptyDict
    /\ pathway2genes = EmptyDict
    /\ index = NoIndex
    /\ target = <<>>
    /\ disease_pathways = <<>>
    /\ disease_genes = {}
    /\ target_genes = {}
    /\ overlap = <<>>
    /\ scores = EmptyDict
    /\ err = ""
    /\ stdout = <<>>
    /\ IdleSid
    /\ IdlePq
    /\ IdleGsea
    /\ IdleInteractions
    /\ IdleLoaders
    /\ IdleCfg
    /\ IdleGmt
    /\ IdleOverlap

\* one iteration of "for line in f" on the next line of the file
ParseFileLine ==
    /\ pc = "parse"
    /\ nread < Len(mapping_file)
    /\ ParseRecord(mapping_file[nread + 1])
    /\ nread' = nread + 1
    /\ UNCHANGED <<index, target, disease_pathways, disease_genes, target_genes,
                   overlap, scores, stdout>>
    /\ UNCHANGED notPipe

\* the loop ends with the file
ParseFileReturn ==
    /\ nread = Len(mapping_file)
    /\ ParseReturn

NextMapping ==
    \/ OpenMapping
    \/ ParseFileLine
    \/ ParseFileReturn

SpecMapping == InitMapping /\ [][NextMapping]_vars

----------------------------------------------------------------------------
\* calculate_scores called on its own: any dicts, any lists

\* bound on the length of every list handed to the direct call
MaxArgLen == 1

DictsOver(K, V) == UNION {[D -> V] : D \in SUBSET K}

InitScore ==
    /\ pc = "call"
    /\ nread = 0
    /\ gene2pathways = EmptyDict
    /\ pathway2genes = EmptyDict
    /\ \E g2p \in DictsOver(GeneNames, SeqsUpTo(PathwayIDs, MaxArgLen)),
          p2g \in DictsOver(PathwayIDs, SeqsUpTo(GeneNames, MaxArgLen)) :
            index = [set |-> TRUE, gene2pathways |-> g2p, pathway2genes |-> p2g]
    /\ target \in GeneNames
    /\ disease_pathways \in SeqsUpTo(PathwayIDs, MaxArgLen)
    /\ disease_genes = {}
    /\ target_genes = {}
    /\ overlap \in SeqsUpTo(GeneNames, MaxArgLen)
    /\ scores = EmptyDict
    /\ err = ""
    /\ stdout = <<>>
    /\ IdleSid
    /\ IdlePq
    /\ IdleGsea
    /\ IdleRest

CallCalculateScores ==
    /\ pc = "call"
    /\ LET r == calculate_scores(overlap, index.gene2pathways, index.pathway2genes,
                                 disease_pathways, target) IN
          IF r.raised # "" THEN pc' = "raised" /\ err' = r.raised /\ UNCHANGED scores
          ELSE scores' = r.value /\ pc' = "returned" /\ err' = err
    /\ UNCHANGED <<nread, gene2pathways, pathway2genes, index, target, disease_pathways,
                   disease_genes, target_genes, overlap, stdout>>
    /\ UNCHANGED notPipe

NextScore == CallCalculateScores

SpecScore == InitScore /\ [][NextScore]_vars

----------------------------------------------------------------------------
\* functions/sid.py

\* Bounds of the sid model: rows of the association source, of the target
\* source and of the disease file
MaxAssocRows == 2
MaxTargetRows == 2
MaxDiseaseRows == 2

DiseaseIDs   == {"D1", "D2"}
DiseaseNames == {"N1"}
TargetIDs    == {"T1", "T2"}
Symbols      == {"S1", "S2"}
\* datatypes a caller may ask for, and the ones the association source holds
Datatypes     == {"g", "s"}
DataDatatypes == {"g"}
Scores       == {1, 2}
\* a missing cell of a table
NaN == "NaN"
\* Python's None as an argument
None == "None"

\* an insertion-ordered dict is a list of <<key, value>> pairs with distinct keys
Keys(items) == {items[i][1] : i \in 1..Len(items)}
Lookup(items, k) == (CHOOSE i \in 1..Len(items) : items[i][1] = k)

\* d[k] = v on an ordered dict: a present key keeps its place
OrderedSet(items, k, v) ==
    IF k \in Keys(items)
    THEN [i \in 1..Len(items) |-> IF items[i][1] = k THEN <<k, v>> ELSE items[i]]
    ELSE Append(items, <<k, v>>)

\* d.update(other)
RECURSIVE OrderedUpdate(_, _)
OrderedUpdate(items, other) ==
    IF other = <<>> THEN items
    ELSE OrderedUpdate(OrderedSet(items, Head(other)[1], Head(other)[2]), Tail(other))

\* df[[c1, c2]].dropna().drop_duplicates(subset=[c1]).set_index(c1)[c2].to_dict()
\* on rows <<c1, c2>>: rows with a missing cell go, then the first row per key stays
RECURSIVE FirstPerKey(_, _)
FirstPerKey(rows, acc) ==
    IF rows = <<>> THEN acc
    ELSE LET r == Head(rows) IN
         IF r[1] = NaN \/ r[2] = NaN \/ r[1] \in Keys(acc)
         THEN FirstPerKey(Tail(rows), acc)
         ELSE FirstPerKey(Tail(rows), Append(acc, r))

\* a deduplication that keeps the last row of a key
TwoColumnsToDictLast(rows) ==
    FirstPerKey([i \in 1..Len(rows) |-> rows[Len(rows) + 1 - i]], <<>>)

TwoColumnsToDict(rows) == FirstPerKey(rows, <<>>)

\* _load_two_column_tsv_to_map on a file with at least two columns
load_two_column_tsv_to_map(rows) == TwoColumnsToDict(rows)

\* _load_gene_maps lines 64-81: a partition is [readable, has_cols, rows]
RECURSIVE IdToSymbol(_, _)
IdToSymbol(parts, acc) ==
    IF parts = <<>> THEN acc
    ELSE LET p == Head(parts) IN
         IF ~p.readable \/ ~p.has_cols THEN IdToSymbol(Tail(parts), acc)
         ELSE IdToSymbol(Tail(parts), OrderedUpdate(acc, TwoColumnsToDict(p.rows)))

\* _load_gene_maps lines 88-91: the first ID seen for a symbol keeps it; an
\* empty symbol or ID gets no entry ("if gname and gid")
RECURSIVE NameToId(_, _)
NameToId(id_to_symbol, acc) ==
    IF id_to_symbol = <<>> THEN acc
    ELSE LET gid == Head(id_to_symbol)[1]
             gname == Head(id_to_symbol)[2]
         IN  IF gname = "" \/ gid = "" \/ gname \in Keys(acc)
             THEN NameToId(Tail(id_to_symbol), acc)
             ELSE NameToId(Tail(id_to_symbol), Append(acc, <<gname, gid>>))

\* what a target partition can be: unreadable, without id/symbol columns, or rows
PartitionOf(kind, rows) ==
    [readable |-> kind # "unreadable", has_cols |-> kind = "rows",
     rows |-> IF kind = "rows" THEN rows ELSE <<>>]

\* the ways to spread rows over two partitions, in sorted filename order
SplitsOf(rows) == {<<SubSeq(rows, 1, k), SubSeq(rows, k + 1, Len(rows))>> : k \in 0..Len(rows)}

\* the partition lists a target directory can hold
TargetDirectories(max_rows) ==
    {<<PartitionOf(k1, split[1]), PartitionOf(k2, split[2])>> :
        k1 \in {"rows", "unreadable", "no_columns"}, k2 \in {"rows", "unreadable", "no_columns"},
        split \in UNION {SplitsOf(rows) :
            rows \in SeqsUpTo((TargetIDs \cup {NaN}) \X (Symbols \cup {NaN}), max_rows)}}

\* the association rows a source can hold
AssocRows(has_datatype) ==
    [diseaseId : DiseaseIDs, targetId : TargetIDs, score : Scores,
     datatypeId : IF has_datatype THEN DataDatatypes ELSE {NaN}]

\* pd.concat(frames, ignore_index=True)
RECURSIVE Concat(_)
Concat(frames) == IF frames = <<>> THEN <<>> ELSE Head(frames) \o Concat(Tail(frames))

\* a reduction that keeps the latest score of a target
Latest(a, b) == b

\* pandas max of two scores
Best(a, b) == IF a >= b THEN a ELSE b

\* subset.groupby("targetId")["score"].max()
RECURSIVE GroupByMax(_, _)
GroupByMax(rows, acc) ==
    IF rows = <<>> THEN acc
    ELSE LET r == Head(rows) IN
         GroupByMax(Tail(rows),
             [k \in DOMAIN acc \cup {r.targetId} |->
                 IF k = r.targetId
                 THEN (IF k \in DOMAIN acc THEN Best(acc[k], r.score) ELSE r.score)
                 ELSE acc[k]])

\* lines 261-264: the rows of the disease, and of the datatype when it applies
SubsetFor(table, disease_id, datatype) ==
    LET subset_all == SelectSeq(table.rows, LAMBDA r : r.diseaseId = disease_id)
    IN  IF datatype # None /\ table.has_datatype
        THEN SelectSeq(subset_all, LAMBDA r : r.datatypeId = datatype)
        ELSE subset_all

\* lines 265-268: agg, empty when the subset is empty
AggFor(table, disease_id, datatype) ==
    GroupByMax(SubsetFor(table, disease_id, datatype), EmptyDict)

\* a mapping step that keeps the targets without a symbol, the symbol left missing
OutputsForAll(agg, id_to_name) ==
    LET row(t) == [symbol |-> IF t \in Keys(id_to_name)
                              THEN id_to_name[Lookup(id_to_name, t)][2] ELSE NaN,
                   globalScore |-> agg[t]]
    IN  {[i \in 1..Len(o) |-> row(o[i])] :
            o \in {q \in Perms(DOMAIN agg) : \A i, j \in 1..Len(q) : i < j => agg[q[i]] >= agg[q[j]]}}

\* lines 269-274: the outputs the descending sort can give (ties in any order)
OutputsFor(agg, id_to_name) ==
    LET kept == {t \in DOMAIN agg : t \in Keys(id_to_name)}
        row(t) == [symbol |-> id_to_name[Lookup(id_to_name, t)][2], globalScore |-> agg[t]]
    IN  {[i \in 1..Len(o) |-> row(o[i])] :
            o \in {q \in Perms(kept) : \A i, j \in 1..Len(q) : i < j => agg[q[i]] >= agg[q[j]]}}

CachesLoaded ==
    /\ GENE_NAME_TO_ID.set /\ GENE_ID_TO_NAME.set
    /\ DISEASE_NAME_TO_ID.set
    /\ DISEASE_ASSOC_DATA.set

\* the first loader of load_data that will not return at its cache check
NextLoader(genes_set, disease_set, assoc_set) ==
    IF ~genes_set THEN "load_genes"
    ELSE IF ~disease_set THEN "load_disease"
    ELSE IF ~assoc_set THEN "load_assoc"
    ELSE "body"

\* what the running call does once load_data is through
Body(call, id_to_name, table) ==
    IF call.op = "build_gsea_input_for_disease_id"
    THEN /\ sid_agg' = AggFor(table, call.disease_id, call.datatype)
         /\ sid_out' \in OutputsFor(AggFor(table, call.disease_id, call.datatype), id_to_name.items)
    ELSE /\ sid_agg' = EmptyDict
         /\ sid_out' = <<>>

\* after a loader: on to the next one, or through the body and back to the caller
Proceed(call, name_to_id, id_to_name, disease_map, table) ==
    LET nxt == NextLoader(name_to_id.set /\ id_to_name.set, disease_map.set, table.set) IN
    IF nxt = "body"
    THEN /\ Body(call, id_to_name, table)
         /\ sid_pc' = "idle"
         /\ sid_err' = ""
    ELSE /\ sid_pc' = nxt
         /\ sid_err' = ""
         /\ UNCHANGED <<sid_agg, sid_out>>

\* the call ends in an exception
SidRaise(e) ==
    /\ sid_pc' = "idle"
    /\ sid_err' = e
    /\ sid_agg' = EmptyDict
    /\ sid_out' = <<>>

\* load_data(), called by the program
CallLoadData ==
    /\ sid_pc = "idle"
    /\ sid_call' = [op |-> "load_data", disease_id |-> None, datatype |-> None]
    /\ Proceed(sid_call', GENE_NAME_TO_ID, GENE_ID_TO_NAME, DISEASE_NAME_TO_ID, DISEASE_ASSOC_DATA)
    /\ UNCHANGED <<GENE_NAME_TO_ID, GENE_ID_TO_NAME, DISEASE_NAME_TO_ID, DISEASE_ASSOC_DATA>>
    /\ UNCHANGED notSid

\* build_gsea_input_for_disease_id(disease_id, datatype), called by the program
CallBuildGseaInputForDiseaseId ==
    /\ sid_pc = "idle"
    /\ \E disease_id \in DiseaseIDs, datatype \in Datatypes \cup {None} :
          sid_call' = [op |-> "build_gsea_input_for_disease_id",
                       disease_id |-> disease_id, datatype |-> datatype]
    /\ Proceed(sid_call', GENE_NAME_TO_ID, GENE_ID_TO_NAME, DISEASE_NAME_TO_ID, DISEASE_ASSOC_DATA)
    /\ UNCHANGED <<GENE_NAME_TO_ID, GENE_ID_TO_NAME, DISEASE_NAME_TO_ID, DISEASE_ASSOC_DATA>>
    /\ UNCHANGED notSid

\* _load_gene_maps with the caches unset
LoadGeneMaps ==
    /\ sid_pc = "load_genes"
    /\ \E layout \in {"no_dir", "no_parts", "parts"} :
        \E parts \in (IF layout = "parts" THEN TargetDirectories(MaxTargetRows) ELSE {<<>>}) :
          IF layout # "parts"
          THEN SidRaise("FileNotFoundError") /\ UNCHANGED <<GENE_NAME_TO_ID, GENE_ID_TO_NAME>>
          ELSE LET id_to_symbol == IdToSymbol(parts, <<>>) IN
               IF id_to_symbol = <<>>
               THEN SidRaise("ValueError") /\ UNCHANGED <<GENE_NAME_TO_ID, GENE_ID_TO_NAME>>
               ELSE /\ GENE_ID_TO_NAME' = [set |-> TRUE, items |-> id_to_symbol]
                    /\ GENE_NAME_TO_ID' = [set |-> TRUE, items |-> NameToId(id_to_symbol, <<>>)]
                    /\ Proceed(sid_call, GENE_NAME_TO_ID', GENE_ID_TO_NAME',
                               DISEASE_NAME_TO_ID, DISEASE_ASSOC_DATA)
    /\ UNCHANGED <<DISEASE_NAME_TO_ID, DISEASE_ASSOC_DATA, sid_call>>
    /\ UNCHANGED notSid

\* _load_disease_map with the cache unset
LoadDiseaseMap ==
    /\ sid_pc = "load_disease"
    /\ \E file \in {"missing", "one_column", "table"} :
          IF file = "missing"
          THEN SidRaise("FileNotFoundError") /\ UNCHANGED DISEASE_NAME_TO_ID
          ELSE IF file = "one_column"
          THEN SidRaise("ValueError") /\ UNCHANGED DISEASE_NAME_TO_ID
          ELSE \E rows \in SeqsUpTo((DiseaseNames \cup {NaN}) \X (DiseaseIDs \cup {NaN}),
                                    MaxDiseaseRows) :
                 /\ DISEASE_NAME_TO_ID' = [set |-> TRUE, items |-> load_two_column_tsv_to_map(rows)]
                 /\ Proceed(sid_call, GENE_NAME_TO_ID, GENE_ID_TO_NAME,
                            DISEASE_NAME_TO_ID', DISEASE_ASSOC_DATA)
    /\ UNCHANGED <<GENE_NAME_TO_ID, GENE_ID_TO_NAME, DISEASE_ASSOC_DATA, sid_call>>
    /\ UNCHANGED notSid

\* _load_associations with the cache unset: the directory of partitions (read in
\* sorted filename order and concatenated), else the flat file, else an error
LoadAssociations ==
    /\ sid_pc = "load_assoc"
    /\ \E source \in {"dir", "empty_dir", "tsv", "tsv_missing_columns", "none"} :
          IF source \in {"empty_dir", "none"}
          THEN SidRaise("FileNotFoundError") /\ UNCHANGED DISEASE_ASSOC_DATA
          ELSE IF source = "tsv_missing_columns"
          THEN SidRaise("ValueError") /\ UNCHANGED DISEASE_ASSOC_DATA
          ELSE \E has_datatype \in BOOLEAN :
                 \E rows \in SeqsUpTo(AssocRows(has_datatype), MaxAssocRows) :
                   \E frames \in (IF source = "dir" THEN SplitsOf(rows) ELSE {<<rows>>}) :
                     /\ DISEASE_ASSOC_DATA' = [set |-> TRUE, has_datatype |-> has_datatype,
                                               rows |-> Concat(frames)]
                     /\ Proceed(sid_call, GENE_NAME_TO_ID, GENE_ID_TO_NAME,
                                DISEASE_NAME_TO_ID, DISEASE_ASSOC_DATA')
    /\ UNCHANGED <<GENE_NAME_TO_ID, GENE_ID_TO_NAME, DISEASE_NAME_TO_ID, sid_call>>
    /\ UNCHANGED notSid

InitSid == IdleSid /\ IdlePipe /\ IdlePq /\ IdleGsea /\ IdleRest

NextSid ==
    \/ CallLoadData
    \/ CallBuildGseaInputForDiseaseId
    \/ LoadGeneMaps
    \/ LoadDiseaseMap
    \/ LoadAssociations

SpecSid == InitSid /\ [][NextSid]_vars

----------------------------------------------------------------------------
\* gsea/data_parser.py parse_associations_parquet

\* Bound: rows held by the associations directory, over its two partitions
MaxParquetRows == 2

ParquetRows == [diseaseId : DiseaseIDs, targetId : TargetIDs, score : Scores, datatypeId : Datatypes]

\* the directories: two partition files, each readable or not
ParquetDirectories(max_rows) ==
    {<<[readable |-> r1, rows |-> split[1]], [readable |-> r2, rows |-> split[2]]>> :
        r1 \in BOOLEAN, r2 \in BOOLEAN,
        split \in UNION {SplitsOf(rows) : rows \in SeqsUpTo(ParquetRows, max_rows)}}

\* lines 72-77: the rows of the disease and datatype, then the first row per target
RECURSIVE FirstScorePerTarget(_, _)
FirstScorePerTarget(rows, acc) ==
    IF rows = <<>> THEN acc
    ELSE LET r == Head(rows) IN
         IF r.targetId \in DOMAIN acc THEN FirstScorePerTarget(Tail(rows), acc)
         ELSE FirstScorePerTarget(Tail(rows),
                  [k \in DOMAIN acc \cup {r.targetId} |->
                      IF k = r.targetId THEN r.score ELSE acc[k]])

ParquetTarget2Score(rows, disease, datatype) ==
    FirstScorePerTarget(
        SelectSeq(rows, LAMBDA r : r.diseaseId = disease /\ r.datatypeId = datatype),
        EmptyDict)

\* target2score.update(parquet_target2score)
DictUpdate(d, other) ==
    [k \in DOMAIN d \cup DOMAIN other |-> IF k \in DOMAIN other THEN other[k] ELSE d[k]]

InitParquet ==
    /\ pq_pc = "listdir"
    /\ pq_dir \in ParquetDirectories(MaxParquetRows)
    /\ pq_args \in [disease : DiseaseIDs, datatype : Datatypes]
    /\ parquet_files = <<>>
    /\ pq_dfp = [bound |-> FALSE, rows |-> <<>>]
    /\ target2score = EmptyDict
    /\ pq_err = ""
    /\ IdlePipe
    /\ IdleSid
    /\ IdleGsea
    /\ IdleRest

\* lines 61-64: os.listdir gives the file names in arbitrary order
ListParquetFiles ==
    /\ pq_pc = "listdir"
    /\ parquet_files' \in Perms(1..Len(pq_dir))
    /\ pq_pc' = "loop"
    /\ UNCHANGED <<pq_dir, pq_args, pq_dfp, target2score, pq_err>>
    /\ UNCHANGED notPq

\* lines 66-78: one iteration of "for file in parquet_files".  A failed read is
\* only logged: dfp keeps the previous frame, or is unbound on the first file
ReadParquetFile ==
    /\ pq_pc = "loop"
    /\ parquet_files # <<>>
    /\ LET file == pq_dir[Head(parquet_files)]
           dfp == IF file.readable THEN [bound |-> TRUE, rows |-> file.rows] ELSE pq_dfp
       IN  IF ~dfp.bound
           THEN /\ pq_pc' = "failed"
                /\ pq_err' = "UnboundLocalError"
                /\ UNCHANGED <<pq_dfp, target2score, parquet_files>>
           ELSE /\ pq_dfp' = dfp
                /\ target2score' = DictUpdate(target2score,
                       ParquetTarget2Score(dfp.rows, pq_args.disease, pq_args.datatype))
                /\ parquet_files' = Tail(parquet_files)
                /\ UNCHANGED <<pq_pc, pq_err>>
    /\ UNCHANGED <<pq_dir, pq_args>>
    /\ UNCHANGED notPq

\* lines 80-82: return(target2score)
ReturnTarget2Score ==
    /\ pq_pc = "loop"
    /\ parquet_files = <<>>
    /\ pq_pc' = "done"
    /\ UNCHANGED <<pq_dir, pq_args, parquet_files, pq_dfp, target2score, pq_err>>
    /\ UNCHANGED notPq

NextParquet ==
    \/ ListParquetFiles
    \/ ReadParquetFile
    \/ ReturnTarget2Score

SpecParquet == InitParquet /\ [][NextParquet]_vars

----------------------------------------------------------------------------
\* gsea/run_gsea.py run_gsea_from_tsv, lines 66-76: the q-value column

MaxBHRows == 3
PDen == 2       \* p-values are multiples of 1/PDen
PNumMax == 3    \* the largest p-value is PNumMax/PDen

\* what pd.to_numeric(..., errors="coerce") makes of a value that is no number
NaNRat == <<0, 0>>
IsNaN(q) == q[2] = 0

PValues == {<<k, PDen>> : k \in 0..PNumMax} \cup {NaNRat}

\* line 71, p.sort_values().index: the row labels by ascending p-value, NaN
\* last; the sort is not stable, equal values come in any order
SortOrders(p) ==
    {o \in Perms(1..Len(p)) :
        \A i, j \in 1..Len(p) : i < j =>
            \/ IsNaN(p[o[j]])
            \/ (~IsNaN(p[o[i]]) /\ RatLeq(p[o[i]], p[o[j]]))}

\* lines 72-73, p.loc[order] * n / ranks: the value at each rank
QRaw(p, order) ==
    [r \in 1..Len(p) |->
        IF IsNaN(p[order[r]]) THEN NaNRat
        ELSE <<p[order[r]][1] * Len(p), p[order[r]][2] * r>>]

\* the smallest number among q[1..i], NaN when there is none
RECURSIVE RunningMin(_, _)
RunningMin(q, i) ==
    IF i = 0 THEN NaNRat
    ELSE LET m == RunningMin(q, i - 1) IN
         IF IsNaN(q[i]) THEN m
         ELSE IF IsNaN(m) THEN q[i]
         ELSE IF RatLeq(m, q[i]) THEN m ELSE q[i]

\* Series.cummin(): a NaN entry is skipped and stays NaN
CumMin(q) == [i \in 1..Len(q) |-> IF IsNaN(q[i]) THEN NaNRat ELSE RunningMin(q, i)]

\* .iloc[::-1]
Reverse(q) == [i \in 1..Len(q) |-> q[Len(q) + 1 - i]]

\* .clip(upper=1.0)
Clip(q) == [i \in 1..Len(q) |-> IF ~IsNaN(q[i]) /\ q[i][1] > q[i][2] THEN <<1, 1>> ELSE q[i]]

\* a running minimum taken from the top instead of from the bottom
StepUpFromTop(q_raw) == Clip(CumMin(q_raw))

\* line 75: q_raw.iloc[::-1].cummin().iloc[::-1].clip(upper=1.0)
StepUp(q_raw) == Clip(Reverse(CumMin(Reverse(q_raw))))

\* line 76: q_adj.reindex(res_df.index).fillna(1.0)
Reindex(q_adj, order) ==
    [row \in 1..Len(order) |->
        LET r == CHOOSE k \in 1..Len(order) : order[k] = row
        IN  IF IsNaN(q_adj[r]) THEN <<1, 1>> ELSE q_adj[r]]

\* the frame blitz.gsea returned: any rows, with or without the two columns
InitBH ==
    /\ bh_pc = "result"
    /\ res_cols \in [pval : BOOLEAN, qval : BOOLEAN]
    /\ \E n \in 0..MaxBHRows :
          /\ res_pval \in (IF res_cols.pval THEN [1..n -> PValues] ELSE {<<>>})
          /\ res_qval \in (IF res_cols.qval
                           THEN {[i \in 1..n |-> <<x, 1>>] : x \in 0..1}
                           ELSE {<<>>})
    /\ bh_order = <<>>
    /\ IdlePipe
    /\ IdleSid
    /\ IdlePq
    /\ IdleTerm
    /\ IdleFilter
    /\ IdleRest

\* lines 67-76
EnsureQval ==
    /\ bh_pc = "result"
    /\ IF ~res_cols.qval /\ res_cols.pval
       THEN \E order \in SortOrders(res_pval) :
               /\ bh_order' = order
               /\ res_qval' = Reindex(StepUp(QRaw(res_pval, order)), order)
               /\ res_cols' = [res_cols EXCEPT !.qval = TRUE]
               /\ bh_pc' = "computed"
       ELSE /\ bh_pc' = "kept"
            /\ UNCHANGED <<bh_order, res_qval, res_cols>>
    /\ UNCHANGED res_pval
    /\ UNCHANGED notBH

NextBH == EnsureQval

SpecBH == InitBH /\ [][NextBH]_vars

----------------------------------------------------------------------------
\* gsea/run_gsea.py run_gsea_from_tsv, lines 51-54: the Term and ID columns

MaxLabelLen == 7

TermChars == {"a", "b", " ", "[", "]"}

\* the keys of load_custom_gmt: the first field of a stripped line, so never
\* empty and never starting with whitespace
TermLabels(max_len) == {l \in SeqsUpTo(TermChars, max_len) : l # <<>> /\ l[1] # " "}

\* the position of the first "]" after position i, 0 when there is none
NextClose(s, i) ==
    IF \E j \in (i + 1)..Len(s) : s[j] = "]"
    THEN CHOOSE j \in (i + 1)..Len(s) :
             s[j] = "]" /\ \A k \in (i + 1)..(j - 1) : s[k] # "]"
    ELSE 0

\* \[[^\]]+\] matches at position i: "[", at least one character other than
\* "]", then "]"
MatchesAt(s, i) == s[i] = "[" /\ NextClose(s, i) > i + 1

\* line 53: str.extract(r"\[([^\]]+)\]", expand=False).fillna(""), the group
\* of the leftmost match
ExtractID(s) ==
    IF \E i \in 1..Len(s) : MatchesAt(s, i)
    THEN LET i == CHOOSE k \in 1..Len(s) :
                      MatchesAt(s, k) /\ \A h \in 1..(k - 1) : ~MatchesAt(s, h)
         IN  SubSeq(s, i + 1, NextClose(s, i) - 1)
    ELSE <<>>

\* the first position from i on that holds no whitespace
SkipSpace(s, i) ==
    IF \E j \in i..Len(s) : s[j] # " "
    THEN CHOOSE j \in i..Len(s) : s[j] # " " /\ \A k \in i..(j - 1) : s[k] = " "
    ELSE Len(s) + 1

\* line 54: str.replace(r"\s*\[[^\]]+\]", "", regex=True) from position i on,
\* every match removed, scanning left to right
RECURSIVE RemoveMatches(_, _)
RemoveMatches(s, i) ==
    IF i > Len(s) THEN <<>>
    ELSE LET w == SkipSpace(s, i) IN
         IF w <= Len(s) /\ MatchesAt(s, w)
         THEN RemoveMatches(s, NextClose(s, w) + 1)
         ELSE <<s[i]>> \o RemoveMatches(s, i + 1)

\* .str.strip()
Strip(s) ==
    IF \A i \in 1..Len(s) : s[i] = " " THEN <<>>
    ELSE LET first == CHOOSE i \in 1..Len(s) : s[i] # " " /\ \A k \in 1..(i - 1) : s[k] = " "
             last  == CHOOSE i \in 1..Len(s) : s[i] # " " /\ \A k \in (i + 1)..Len(s) : s[k] = " "
         IN  SubSeq(s, first, last)

CleanTerm(s) == Strip(RemoveMatches(s, 1))

\* a row of the frame blitz.gsea returned, its Term a key of the GMT library
InitTerm ==
    /\ tm_pc = "result"
    /\ term_label \in TermLabels(MaxLabelLen)
    /\ term_id = <<>>
    /\ term_name = <<>>
    /\ IdlePipe
    /\ IdleSid
    /\ IdlePq
    /\ IdleBH
    /\ IdleFilter
    /\ IdleRest

\* lines 52-54
SplitTermLabel ==
    /\ tm_pc = "result"
    /\ term_id' = ExtractID(term_label)
    /\ term_name' = CleanTerm(term_label)
    /\ tm_pc' = "done"
    /\ UNCHANGED term_label
    /\ UNCHANGED notTerm

NextTerm == SplitTermLabel

SpecTerm == InitTerm /\ [][NextTerm]_vars

----------------------------------------------------------------------------
\* gsea/run_gsea.py filter_pathway_ids_by_pvalue

MaxFilterRows == 2

ResultIDs == {"R1", "R2"}
PLevels == 0..1          \* the values of pval and qval, and of the thresholds
NESValues == {-1, 0, 1}
ResultColumns == {"ID", "pval", "qval", "NES"}

\* a threshold argument: None or a value
Thresholds == {NoThreshold} \cup {[given |-> TRUE, value |-> v] : v \in PLevels}

\* the rows of a frame with the columns cols; a column the frame lacks is
\* written as a fixed filler
ResultRows(cols) ==
    [ID   : IF "ID" \in cols THEN ResultIDs ELSE {""},
     pval : IF "pval" \in cols THEN PLevels ELSE {0},
     qval : IF "qval" \in cols THEN PLevels ELSE {0},
     NES  : IF "NES" \in cols THEN NESValues ELSE {0}]

ResultFrames(max_rows) ==
    UNION {[cols : {cols}, rows : SeqsUpTo(ResultRows(cols), max_rows)] :
              cols \in SUBSET ResultColumns}

\* line 106: pd.Series(True, index=df.index)
AllTrue(df) == [i \in 1..Len(df.rows) |-> TRUE]

\* a p-value test that leaves out the rows on the threshold
PvalMaskStrict(df, args, mask) ==
    IF args.pval_threshold.given /\ "pval" \in df.cols
    THEN [i \in 1..Len(df.rows) |-> mask[i] /\ df.rows[i].pval < args.pval_threshold.value]
    ELSE mask

\* lines 109-113
PvalMask(df, args, mask) ==
    IF args.pval_threshold.given /\ "pval" \in df.cols
    THEN [i \in 1..Len(df.rows) |-> mask[i] /\ df.rows[i].pval <= args.pval_threshold.value]
    ELSE mask

\* lines 116-120
FdrMask(df, args, mask) ==
    IF args.fdr_threshold.given /\ "qval" \in df.cols
    THEN [i \in 1..Len(df.rows) |-> mask[i] /\ df.rows[i].qval <= args.fdr_threshold.value]
    ELSE mask

\* lines 122-123
NesMask(df, args, mask) ==
    IF args.nes_positive /\ "NES" \in df.cols
    THEN [i \in 1..Len(df.rows) |-> mask[i] /\ df.rows[i].NES > 0]
    ELSE mask

\* line 125, df.loc[mask, ["ID"]]: the ID of every row the mask keeps, from row i on
RECURSIVE Loc(_, _, _)
Loc(rows, mask, i) ==
    IF i > Len(rows) THEN <<>>
    ELSE (IF mask[i] THEN <<rows[i].ID>> ELSE <<>>) \o Loc(rows, mask, i + 1)

\* lines 102-131
filter_pathway_ids_by_pvalue(df, args) ==
    IF "ID" \notin df.cols
    THEN [raised |-> "ValueError", pathwayId |-> <<>>]
    ELSE LET mask == NesMask(df, args, FdrMask(df, args, PvalMask(df, args, AllTrue(df))))
         IN  [raised |-> "", pathwayId |-> Loc(df.rows, mask, 1)]

InitFilter ==
    /\ ft_pc = "call"
    /\ ft_df \in ResultFrames(MaxFilterRows)
    /\ ft_args \in [pval_threshold : Thresholds, fdr_threshold : Thresholds,
                    nes_positive : BOOLEAN]
    /\ ft_out = <<>>
    /\ ft_err = ""
    /\ IdlePipe
    /\ IdleSid
    /\ IdlePq
    /\ IdleBH
    /\ IdleTerm
    /\ IdleRest

CallFilterPathwayIdsByPvalue ==
    /\ ft_pc = "call"
    /\ LET res == filter_pathway_ids_by_pvalue(ft_df, ft_args) IN
          /\ ft_err' = res.raised
          /\ ft_out' = res.pathwayId
          /\ ft_pc' = IF res.raised = "" THEN "returned" ELSE "raised"
    /\ UNCHANGED <<ft_df, ft_args>>
    /\ UNCHANGED notFilter

NextFilter == CallFilterPathwayIdsByPvalue

SpecFilter == InitFilter /\ [][NextFilter]_vars

----------------------------------------------------------------------------
\* data_parser.py parse_interactions and the network of run.py main, lines
\* 184-188 (network_propagation/parse_interactions.py and
\* reactome/run_reactome.py hold the same code)

MaxInteractionLines == 2

\* number of tab-separated fields of an interaction record
NInteractionFields == 5

ExpectedHeader == <<"Gene1", "Gene2", "Annotation", "Direction", "Score">>

Directions == {"->", "<-", "-"}
InteractionGenes == {"A", "B"}

\* the first line of the file, split at the tabs: the expected header, headers
\* that differ from it, a record (the header is missing), or <<>> for readline()
\* on an empty file
FirstLines ==
    {ExpectedHeader,
     <<"Gene1", "GeneB", "Annotation", "Direction", "Score">>,
     <<"Gene1", "Gene2", "Annotation", "Direction">>,
     <<"gene1", "Gene2", "Annotation", "Direction", "Score">>,
     <<"Gene1">>,
     <<"A", "B", "ann", "->", "0.9">>,
     <<>>}

\* the split lines after the first: 5 fields, or a bad line of 4
InteractionLines ==
    {<<g1, g2, "ann", d, "0.9">> : g1 \in InteractionGenes, g2 \in InteractionGenes,
                                   d \in Directions}
    \cup {<<"A", "B", "ann", "->">>}

InteractionFiles ==
    [first_line : FirstLines, records : SeqsUpTo(InteractionLines, MaxInteractionLines)]

\* line 97: line.startswith("Gene1\t"), the first field is Gene1 and a tab follows
StartsWithGene1Tab(first_line) == Len(first_line) >= 2 /\ first_line[1] = "Gene1"

\* a reading of the direction column that takes "-" as an edge too
EdgesOfAnyMarker(split_line) ==
    IF split_line[4] = "<-" THEN <<<<split_line[2], split_line[1]>>>>
    ELSE <<<<split_line[1], split_line[2]>>>>

\* lines 113-116: the tuples one record appends
EdgesOf(split_line) ==
    (IF split_line[4] = "->" THEN <<<<split_line[1], split_line[2]>>>> ELSE <<>>)
    \o (IF split_line[4] = "<-" THEN <<<<split_line[2], split_line[1]>>>> ELSE <<>>)

\* networkx.from_edgelist(edgelist) with the default create_using: a
\* networkx.Graph, where add_edge(u, v) makes v a neighbour of u and u a
\* neighbour of v.  edges holds the pairs <<u, v>> with has_edge(u, v).
from_edgelist(edgelist) ==
    [built |-> TRUE,
     nodes |-> UNION {{edgelist[i][1], edgelist[i][2]} : i \in 1..Len(edgelist)},
     edges |-> UNION {{<<edgelist[i][1], edgelist[i][2]>>, <<edgelist[i][2], edgelist[i][1]>>} :
                         i \in 1..Len(edgelist)}]

InitInteractions ==
    /\ in_pc = "open"
    /\ interactions_file \in InteractionFiles
    /\ in_nread = 0
    /\ interactions = <<>>
    /\ network = NoNetwork
    /\ in_err = ""
    /\ IdlePipe
    /\ IdleSid
    /\ IdlePq
    /\ IdleGsea
    /\ IdleMap
    /\ IdleLoaders
    /\ IdleCfg
    /\ IdleGmt
    /\ IdleOverlap

InFail(message) ==
    /\ in_pc' = "failed"
    /\ in_err' = message

\* lines 89-93: open(interactions_file)
OpenInteractions ==
    /\ in_pc = "open"
    /\ \E exists \in BOOLEAN :
          IF exists THEN in_pc' = "header" /\ in_err' = in_err
          ELSE InFail("Cannot open provided Reactome file")
    /\ UNCHANGED <<interactions_file, in_nread, interactions, network>>
    /\ UNCHANGED notInteractions

\* lines 96-100: the first line
ReadHeader ==
    /\ in_pc = "header"
    /\ IF StartsWithGene1Tab(interactions_file.first_line)
       THEN in_pc' = "records" /\ in_err' = in_err
       ELSE InFail("Reactome file problem")
    /\ UNCHANGED <<interactions_file, in_nread, interactions, network>>
    /\ UNCHANGED notInteractions

\* lines 102-119: one iteration of "for line in f"
ParseInteraction ==
    /\ in_pc = "records"
    /\ in_nread < Len(interactions_file.records)
    /\ LET split_line == interactions_file.records[in_nread + 1] IN
          IF Len(split_line) # NInteractionFields
          THEN InFail("Bad line in the Reactome file") /\ UNCHANGED interactions
          ELSE /\ interactions' = interactions \o EdgesOf(split_line)
               /\ UNCHANGED <<in_pc, in_err>>
    /\ in_nread' = in_nread + 1
    /\ UNCHANGED <<interactions_file, network>>
    /\ UNCHANGED notInteractions

\* lines 121-123: end of file, return(interactions)
ReturnInteractions ==
    /\ in_pc = "records"
    /\ in_nread = Len(interactions_file.records)
    /\ in_pc' = "returned"
    /\ UNCHANGED <<interactions_file, in_nread, interactions, network, in_err>>
    /\ UNCHANGED notInteractions

\* run.py line 187: network = networkx.from_edgelist(interactions)
BuildNetwork ==
    /\ in_pc = "returned"
    /\ network' = from_edgelist(interactions)
    /\ in_pc' = "built"
    /\ UNCHANGED <<interactions_file, in_nread, interactions, in_err>>
    /\ UNCHANGED notInteractions

NextInteractions ==
    \/ OpenInteractions
    \/ ReadHeader
    \/ ParseInteraction
    \/ ReturnInteractions
    \/ BuildNetwork

SpecInteractions == InitInteractions /\ [][NextInteractions]_vars

----------------------------------------------------------------------------
\* functions/sid.py _load_two_column_tsv_to_map on a given file

MaxTableRows == 3

\* the cells of the first, second and third column
NameCells == {"N1", "N2", NaN}
IdCells == {"D1", "D2", NaN}
OtherCells == {"x", NaN}

\* the rows of a frame with n columns
TableRows(n) ==
    IF n = 1 THEN {<<c1>> : c1 \in NameCells}
    ELSE IF n = 2 THEN NameCells \X IdCells
    ELSE NameCells \X IdCells \X OtherCells

\* the frames pd.read_csv can return: one, two or three columns
Tables(max_rows) ==
    UNION {[ncols : {n}, rows : SeqsUpTo(TableRows(n), max_rows)] : n \in 1..3}

\* line 29: df[[col1, col2]]
FirstTwoColumns(rows) == [i \in 1..Len(rows) |-> <<rows[i][1], rows[i][2]>>]

\* lines 22-35
LoadTwoColumnFile(df) ==
    IF df.ncols < 2
    THEN [raised |-> "ValueError", mapped |-> <<>>]
    ELSE [raised |-> "", mapped |-> load_two_column_tsv_to_map(FirstTwoColumns(df.rows))]

InitTwoColumn ==
    /\ tc_pc = "call"
    /\ tc_df \in Tables(MaxTableRows)
    /\ mapped = <<>>
    /\ tc_err = ""
    /\ IdlePipe
    /\ IdleSid
    /\ IdlePq
    /\ IdleGsea
    /\ IdleMap
    /\ IdleInteractions
    /\ IdleGeneMaps
    /\ IdleCfg
    /\ IdleGmt
    /\ IdleOverlap

CallLoadTwoColumnTsvToMap ==
    /\ tc_pc = "call"
    /\ LET res == LoadTwoColumnFile(tc_df) IN
          /\ tc_err' = res.raised
          /\ mapped' = res.mapped
          /\ tc_pc' = IF res.raised = "" THEN "returned" ELSE "raised"
    /\ UNCHANGED tc_df
    /\ UNCHANGED notTwoColumn

NextTwoColumn == CallLoadTwoColumnTsvToMap

SpecTwoColumn == InitTwoColumn /\ [][NextTwoColumn]_vars

----------------------------------------------------------------------------
\* functions/sid.py _load_gene_maps on a given directory

MaxGeneRows == 3

\* the parquet files a target directory can hold, in filename order
PartNames == <<"a.parquet", "b.parquet">>

\* the symbol column: symbols, the empty string, or a missing cell
SymbolCells == Symbols \cup {"", NaN}

\* a directory: the files named, the rows spread over them; a file may be
\* unreadable or lack the id and symbol columns
GeneDirectory(names, kinds, split) ==
    [n \in names |-> PartitionOf(kinds[n],
                         IF n = PartNames[1] \/ Cardinality(names) = 1
                         THEN split[1] ELSE split[2])]

NameRank(n) == CHOOSE i \in 1..Len(PartNames) : PartNames[i] = n

\* line 58: sorted(os.listdir(target_dir))
sorted_listing(listing) ==
    CHOOSE o \in Perms(Range(listing)) :
        \A i, j \in 1..Len(o) : i < j => NameRank(o[i]) < NameRank(o[j])

\* lines 56-60: the partitions in processing order
PartsOf(dir, listing) ==
    LET o == sorted_listing(listing) IN [i \in 1..Len(o) |-> dir[o[i]]]

\* lines 55-94
LoadGeneMapsFrom(dir, listing) ==
    LET parts == PartsOf(dir, listing)
        ids == IdToSymbol(parts, <<>>)
    IN  IF parts = <<>>
        THEN [raised |-> "FileNotFoundError", id_to_symbol |-> <<>>, name_to_id |-> <<>>]
        ELSE IF ids = <<>>
        THEN [raised |-> "ValueError", id_to_symbol |-> <<>>, name_to_id |-> <<>>]
        ELSE [raised |-> "", id_to_symbol |-> ids, name_to_id |-> NameToId(ids, <<>>)]

InitGeneMaps ==
    /\ gm_pc = "listdir"
    /\ \E names \in SUBSET Range(PartNames),
          rows \in SeqsUpTo(TargetIDs \X SymbolCells, MaxGeneRows) :
          \E kinds \in [names -> {"rows", "unreadable", "no_columns"}],
             split \in SplitsOf(rows) :
             target_dir = GeneDirectory(names, kinds, split)
    /\ gm_listing = <<>>
    /\ gm_id_to_symbol = <<>>
    /\ gm_name_to_id = <<>>
    /\ gm_err = ""
    /\ IdlePipe
    /\ IdleSid
    /\ IdlePq
    /\ IdleGsea
    /\ IdleMap
    /\ IdleInteractions
    /\ IdleTwoColumn
    /\ IdleCfg
    /\ IdleGmt
    /\ IdleOverlap

\* line 58: os.listdir(target_dir), the names in any order
ListTargetDir ==
    /\ gm_pc = "listdir"
    /\ gm_listing' \in Perms(DOMAIN target_dir)
    /\ gm_pc' = "load"
    /\ UNCHANGED <<target_dir, gm_id_to_symbol, gm_name_to_id, gm_err>>
    /\ UNCHANGED notGeneMaps

\* lines 56-94
BuildGeneMaps ==
    /\ gm_pc = "load"
    /\ LET res == LoadGeneMapsFrom(target_dir, gm_listing) IN
          /\ gm_err' = res.raised
          /\ gm_id_to_symbol' = res.id_to_symbol
          /\ gm_name_to_id' = res.name_to_id
          /\ gm_pc' = IF res.raised = "" THEN "returned" ELSE "raised"
    /\ UNCHANGED <<target_dir, gm_listing>>
    /\ UNCHANGED notGeneMaps

NextGeneMaps ==
    \/ ListTargetDir
    \/ BuildGeneMaps

SpecGeneMaps == InitGeneMaps /\ [][NextGeneMaps]_vars

----------------------------------------------------------------------------
\* gsea/data_parser.py parse_target_parquet on a given directory

\* lines 33-36: drop_duplicates(subset=["id"]).set_index("id")[...].to_dict(),
\* the first row per id; no row is dropped for a missing cell
RECURSIVE FirstPerId(_, _)
FirstPerId(rows, acc) ==
    IF rows = <<>> THEN acc
    ELSE IF Head(rows)[1] \in Keys(acc) THEN FirstPerId(Tail(rows), acc)
    ELSE FirstPerId(Tail(rows), Append(acc, Head(rows)))

\* lines 28-37: the loop over parquet_files.  A file that cannot be read with
\* the two columns is only logged: dfp keeps the frame read before, and is
\* unbound when the first file fails.
RECURSIVE TargetParquetLoop(_, _, _, _)
TargetParquetLoop(dir, files, dfp, acc) ==
    IF files = <<>> THEN [raised |-> "", target2symbol |-> acc]
    ELSE LET part == dir[Head(files)]
             read == part.readable /\ part.has_cols
             frame == IF read THEN [bound |-> TRUE, rows |-> part.rows] ELSE dfp
         IN  IF ~frame.bound
             THEN [raised |-> "UnboundLocalError", target2symbol |-> <<>>]
             ELSE TargetParquetLoop(dir, Tail(files), frame,
                      OrderedUpdate(acc, FirstPerId(frame.rows, <<>>)))

\* lines 20-41: the files are taken in os.listdir order
parse_target_parquet(dir, listing) ==
    TargetParquetLoop(dir, listing, [bound |-> FALSE, rows |-> <<>>], <<>>)

\* lines 23-41 after the listing
ParseTargetParquet ==
    /\ gm_pc = "load"
    /\ LET res == parse_target_parquet(target_dir, gm_listing) IN
          /\ gm_err' = res.raised
          /\ gm_id_to_symbol' = res.target2symbol
          /\ gm_pc' = IF res.raised = "" THEN "returned" ELSE "raised"
    /\ UNCHANGED <<target_dir, gm_listing, gm_name_to_id>>
    /\ UNCHANGED notGeneMaps

NextTargetParquet ==
    \/ ListTargetDir
    \/ ParseTargetParquet

SpecTargetParquet == InitGeneMaps /\ [][NextTargetParquet]_vars

----------------------------------------------------------------------------
\* functions/sid.py: the configured data sources, the loaders on a given file
\* system, and the public functions called in any order

\* the paths: the target directory given by configure_data_sources and the one
\* given by SID_TARGET_DIR, the association directory, the association TSV
CliTargetDir == "td1"
EnvTargetDir == "td2"
AssocDir == "ad"
AssocTsv == "tsv"
\* line 97: the default of _load_disease_map
DiseaseDataFile == "data/disease_data.txt"

Absent == [kind |-> "absent"]

\* what a target directory path can hold: nothing or a directory with rows, and
\* for the configured path also a directory without parquet files and one whose
\* only file cannot be read.  The rows differ from path to path, so that a cache
\* tells the directory it was built from.
TargetRowsAt(path) ==
    IF path = CliTargetDir THEN <<<<"T1", "S1">>>> ELSE <<<<"T1", "S2">>, <<"T2", "S2">>>>

TargetEntries(path) ==
    {Absent, [kind |-> "dir", parts |-> <<PartitionOf("rows", TargetRowsAt(path))>>]}
    \cup (IF path = CliTargetDir
          THEN {[kind |-> "dir", parts |-> <<>>],
                [kind |-> "dir", parts |-> <<PartitionOf("unreadable", <<>>)>>]}
          ELSE {})

\* the association directory: nothing, no parquet files, or two partitions
AssocDirEntries ==
    {Absent,
     [kind |-> "dir", has_datatype |-> TRUE, frames |-> <<>>],
     [kind |-> "dir", has_datatype |-> TRUE,
      frames |-> << <<[diseaseId |-> "D1", targetId |-> "T1", score |-> 1, datatypeId |-> "g"]>>,
                    <<[diseaseId |-> "D1", targetId |-> "T2", score |-> 2, datatypeId |-> "g"]>> >>]}

\* the association TSV: nothing, a file lacking a required column, or a table
AssocTsvEntries ==
    {Absent,
     [kind |-> "file", has_columns |-> FALSE, has_datatype |-> FALSE, rows |-> <<>>],
     [kind |-> "file", has_columns |-> TRUE, has_datatype |-> FALSE,
      rows |-> <<[diseaseId |-> "D1", targetId |-> "T1", score |-> 2, datatypeId |-> NaN]>>]}

\* the disease file: nothing, a one-column table, or a table name -> ID
DiseaseFileEntries ==
    {Absent,
     [kind |-> "file", ncols |-> 1, rows |-> <<<<"N1">>>>],
     [kind |-> "file", ncols |-> 2, rows |-> <<<<"N1", "D1">>>>]}

FileSystems ==
    [{CliTargetDir} -> TargetEntries(CliTargetDir)]
    \X [{EnvTargetDir} -> TargetEntries(EnvTargetDir)]
    \X [{AssocDir} -> AssocDirEntries]
    \X [{AssocTsv} -> AssocTsvEntries]
    \X [{DiseaseDataFile} -> DiseaseFileEntries]

\* the environments: SID_TARGET_DIR set or not, the other two variables not set
Environments ==
    [SID_TARGET_DIR : {None, EnvTargetDir},
     SID_ASSOCIATIONS_DIR : {None},
     SID_ASSOCIATIONS_TSV : {None}]

\* lines 49, 113, 114: X or os.environ.get(...)
ResolvePath(configured, from_env) == IF configured # None THEN configured ELSE from_env

\* the four caches as one value
Caches == [name_to_id |-> GENE_NAME_TO_ID, id_to_name |-> GENE_ID_TO_NAME,
           disease |-> DISEASE_NAME_TO_ID, assoc |-> DISEASE_ASSOC_DATA]

Loaded(c) == [raised |-> "", caches |-> c]
Failed(e, c) == [raised |-> e, caches |-> c]

\* a cache check that never finds the gene maps
gene_maps_never_cached(c) == FALSE

\* line 45
gene_maps_cached(c) == c.name_to_id.set /\ c.id_to_name.set

\* an assignment that stops after GENE_ID_TO_NAME
AssignIdToNameOnly(c, id_to_symbol) ==
    [c EXCEPT !.id_to_name = [set |-> TRUE, items |-> id_to_symbol]]

\* lines 88-94
AssignGeneMaps(c, id_to_symbol) ==
    [c EXCEPT !.id_to_name = [set |-> TRUE, items |-> id_to_symbol],
              !.name_to_id = [set |-> TRUE, items |-> NameToId(id_to_symbol, <<>>)]]

\* lines 38-94
load_gene_maps(c) ==
    IF gene_maps_cached(c) THEN Loaded(c)
    ELSE LET dir == ResolvePath(TARGET_DIR, environ.SID_TARGET_DIR) IN
         IF dir = None \/ fs[dir].kind # "dir" THEN Failed("FileNotFoundError", c)
         ELSE IF fs[dir].parts = <<>> THEN Failed("FileNotFoundError", c)
         ELSE LET id_to_symbol == IdToSymbol(fs[dir].parts, <<>>) IN
              IF id_to_symbol = <<>> THEN Failed("ValueError", c)
              ELSE Loaded(AssignGeneMaps(c, id_to_symbol))

\* lines 97-101
load_disease_map(c) ==
    IF c.disease.set THEN Loaded(c)
    ELSE LET file == fs[DiseaseDataFile] IN
         IF file.kind # "file" THEN Failed("FileNotFoundError", c)
         ELSE LET res == LoadTwoColumnFile([ncols |-> file.ncols, rows |-> file.rows]) IN
              IF res.raised # "" THEN Failed(res.raised, c)
              ELSE Loaded([c EXCEPT !.disease = [set |-> TRUE, items |-> res.mapped]])

\* lines 104-153
load_associations(c) ==
    IF c.assoc.set THEN Loaded(c)
    ELSE LET parquet_dir == ResolvePath(ASSOCIATIONS_DIR, environ.SID_ASSOCIATIONS_DIR)
             tsv_fallback == ResolvePath(ASSOCIATIONS_TSV, environ.SID_ASSOCIATIONS_TSV)
         IN  IF parquet_dir # None /\ fs[parquet_dir].kind = "dir"
             THEN IF fs[parquet_dir].frames = <<>>
                  THEN Failed("FileNotFoundError", c)
                  ELSE Loaded([c EXCEPT !.assoc =
                                  [set |-> TRUE, has_datatype |-> fs[parquet_dir].has_datatype,
                                   rows |-> Concat(fs[parquet_dir].frames)]])
             ELSE IF tsv_fallback # None /\ fs[tsv_fallback].kind = "file"
             THEN IF ~fs[tsv_fallback].has_columns
                  THEN Failed("ValueError", c)
                  ELSE Loaded([c EXCEPT !.assoc =
                                  [set |-> TRUE, has_datatype |-> fs[tsv_fallback].has_datatype,
                                   rows |-> fs[tsv_fallback].rows]])
             ELSE Failed("FileNotFoundError", c)

\* lines 156-160: an exception of a loader ends the call where it is
load_data(c) ==
    LET genes == load_gene_maps(c) IN
    IF genes.raised # "" THEN genes
    ELSE LET disease == load_disease_map(genes.caches) IN
         IF disease.raised # "" THEN disease
         ELSE load_associations(disease.caches)

\* the globals after a call
SetCaches(c) ==
    /\ GENE_NAME_TO_ID' = c.name_to_id
    /\ GENE_ID_TO_NAME' = c.id_to_name
    /\ DISEASE_NAME_TO_ID' = c.disease
    /\ DISEASE_ASSOC_DATA' = c.assoc

\* how a call ends: with an exception, a value, or a table
Raises(e) == sid_err' = e /\ sid_ret' = <<>> /\ sid_out' = <<>> /\ sid_agg' = EmptyDict
Returns(v) == sid_err' = "" /\ sid_ret' = v /\ sid_out' = <<>> /\ sid_agg' = EmptyDict

Called(op, args) == sid_call' = [op |-> op, args |-> args]

unchangedSources == <<ASSOCIATIONS_DIR, ASSOCIATIONS_TSV, TARGET_DIR, environ, fs>>

\* lines 163-170
ConfigureDataSources ==
    /\ \E associations_dir \in {None, AssocDir}, associations_tsv \in {None, AssocTsv},
          target_dir_arg \in {None, CliTargetDir} :
          /\ Called("configure_data_sources", <<associations_dir, associations_tsv, target_dir_arg>>)
          /\ ASSOCIATIONS_DIR' = ResolvePath(associations_dir, ASSOCIATIONS_DIR)
          /\ ASSOCIATIONS_TSV' = ResolvePath(associations_tsv, ASSOCIATIONS_TSV)
          /\ TARGET_DIR' = ResolvePath(target_dir_arg, TARGET_DIR)
    /\ Returns(<<>>)
    /\ UNCHANGED <<GENE_NAME_TO_ID, GENE_ID_TO_NAME, DISEASE_NAME_TO_ID, DISEASE_ASSOC_DATA,
                   sid_pc, environ, fs>>
    /\ UNCHANGED notSidCalls

\* lines 156-160, called by the program
LoadData ==
    /\ Called("load_data", <<>>)
    /\ LET res == load_data(Caches) IN
          /\ SetCaches(res.caches)
          /\ IF res.raised # "" THEN Raises(res.raised) ELSE Returns(<<>>)
    /\ UNCHANGED <<sid_pc, unchangedSources>>
    /\ UNCHANGED notSidCalls

\* lines 173-182
ValidateInput ==
    /\ \E gene_name \in {"S1"}, disease_name \in DiseaseNames \cup {"N2"} :
          /\ Called("validate_input", <<gene_name, disease_name>>)
          /\ LET res == IF ~GENE_NAME_TO_ID.set \/ ~DISEASE_NAME_TO_ID.set
                        THEN load_data(Caches) ELSE Loaded(Caches)
                 genes == res.caches.name_to_id.items
                 diseases == res.caches.disease.items
             IN  /\ SetCaches(res.caches)
                 /\ IF res.raised # "" THEN Raises(res.raised)
                    ELSE IF gene_name \notin Keys(genes) THEN Raises("ValueError")
                    ELSE IF disease_name \notin Keys(diseases) THEN Raises("ValueError")
                    ELSE Returns(<<genes[Lookup(genes, gene_name)][2],
                                   diseases[Lookup(diseases, disease_name)][2]>>)
    /\ UNCHANGED <<sid_pc, unchangedSources>>
    /\ UNCHANGED notSidCalls

\* lines 185-199
ResolveDiseaseId ==
    /\ \E disease_name \in DiseaseNames \cup {None}, disease_id \in {"D1", None} :
          /\ Called("resolve_disease_id", <<disease_name, disease_id>>)
          /\ LET res == load_data(Caches)
                 diseases == res.caches.disease.items
             IN  /\ SetCaches(res.caches)
                 /\ IF res.raised # "" THEN Raises(res.raised)
                    ELSE IF disease_id # None THEN Returns(<<disease_id>>)
                    ELSE IF disease_name = None THEN Raises("ValueError")
                    ELSE IF disease_name \notin Keys(diseases) THEN Raises("ValueError")
                    ELSE Returns(<<diseases[Lookup(diseases, disease_name)][2]>>)
    /\ UNCHANGED <<sid_pc, unchangedSources>>
    /\ UNCHANGED notSidCalls

\* lines 211-213: the rows of the disease by descending score, ties in any order
AssociatedWith(table, disease_id) ==
    LET rows == SelectSeq(table.rows, LAMBDA r : r.diseaseId = disease_id)
    IN  {[i \in 1..Len(rows) |-> [targetId |-> rows[o[i]].targetId, score |-> rows[o[i]].score]] :
            o \in {q \in Perms(1..Len(rows)) :
                      \A i, j \in 1..Len(rows) : i < j => rows[q[i]].score >= rows[q[j]].score}}

\* lines 202-213
GetGenesAssociatedWithDisease ==
    /\ \E disease_id \in {"D1"} :
          /\ Called("get_genes_associated_with_disease", <<disease_id>>)
          /\ LET res == load_associations(Caches) IN
                /\ SetCaches(res.caches)
                /\ IF res.raised # "" THEN Raises(res.raised)
                   ELSE /\ sid_err' = ""
                        /\ sid_ret' = <<>>
                        /\ sid_agg' = EmptyDict
                        /\ sid_out' \in AssociatedWith(res.caches.assoc, disease_id)
    /\ UNCHANGED <<sid_pc, unchangedSources>>
    /\ UNCHANGED notSidCalls

\* lines 232-250 and 261-274: the table for a disease ID
GseaInput(c, disease_id, datatype) ==
    /\ sid_err' = ""
    /\ sid_ret' = <<>>
    /\ sid_agg' = AggFor(c.assoc, disease_id, datatype)
    /\ sid_out' \in OutputsFor(AggFor(c.assoc, disease_id, datatype), c.id_to_name.items)

\* lines 216-250
BuildGseaInputForDisease ==
    /\ \E disease_name \in DiseaseNames \cup {"N2"}, datatype \in {None} :
          /\ Called("build_gsea_input_for_disease", <<disease_name, datatype>>)
          /\ LET res == load_data(Caches)
                 diseases == res.caches.disease.items
             IN  /\ SetCaches(res.caches)
                 /\ IF res.raised # "" THEN Raises(res.raised)
                    ELSE IF disease_name \notin Keys(diseases) THEN Raises("ValueError")
                    ELSE GseaInput(res.caches, diseases[Lookup(diseases, disease_name)][2], datatype)
    /\ UNCHANGED <<sid_pc, unchangedSources>>
    /\ UNCHANGED notSidCalls

\* lines 253-274
BuildGseaInputForDiseaseId ==
    /\ \E disease_id \in {"D1"}, datatype \in {None, "g"} :
          /\ Called("build_gsea_input_for_disease_id", <<disease_id, datatype>>)
          /\ LET res == load_data(Caches) IN
                /\ SetCaches(res.caches)
                /\ IF res.raised # "" THEN Raises(res.raised)
                   ELSE GseaInput(res.caches, disease_id, datatype)
    /\ UNCHANGED <<sid_pc, unchangedSources>>
    /\ UNCHANGED notSidCalls

\* the module as imported: the caches and the sources are None (lines 9-17)
InitSidCalls ==
    /\ GENE_NAME_TO_ID = Unset
    /\ GENE_ID_TO_NAME = Unset
    /\ DISEASE_NAME_TO_ID = Unset
    /\ DISEASE_ASSOC_DATA = UnsetTable
    /\ sid_pc = "idle"
    /\ sid_call = [op |-> "none", args |-> <<>>]
    /\ sid_agg = EmptyDict
    /\ sid_out = <<>>
    /\ sid_err = ""
    /\ sid_ret = <<>>
    /\ ASSOCIATIONS_DIR = None
    /\ ASSOCIATIONS_TSV = None
    /\ TARGET_DIR = None
    /\ environ \in Environments
    /\ \E files \in FileSystems :
          fs = files[1] @@ files[2] @@ files[3] @@ files[4] @@ files[5]
    /\ IdlePipe
    /\ IdlePq
    /\ IdleGsea
    /\ IdleMap
    /\ IdleInteractions
    /\ IdleLoaders
    /\ IdleGmt
    /\ IdleOverlap

NextSidCalls ==
    \/ ConfigureDataSources
    \/ LoadData
    \/ ValidateInput
    \/ ResolveDiseaseId
    \/ GetGenesAssociatedWithDisease
    \/ BuildGseaInputForDisease
    \/ BuildGseaInputForDiseaseId

SpecSidCalls == InitSidCalls /\ [][NextSidCalls]_vars

----------------------------------------------------------------------------
\* gsea/run_gsea.py load_custom_gmt and gsea/data_parser.py parse_gmt_file on a
\* given file

MaxGmtLines == 2
MaxGmtFields == 3

\* what stands between two tabs of a line: nothing, a term or a gene
GmtFields == {"", "t", "g"}

\* a line without its newline, cut at the tabs; the blank line is <<"">>
GmtLines(max_fields) == UNION {[1..k -> GmtFields] : k \in 1..max_fields}

\* the fields up to the last one that is not empty
RECURSIVE DropTrailingEmpty(_)
DropTrailingEmpty(fields) ==
    IF fields = <<>> THEN <<>>
    ELSE IF fields[Len(fields)] = "" THEN DropTrailingEmpty(SubSeq(fields, 1, Len(fields) - 1))
    ELSE fields

\* the fields from the first one that is not empty
RECURSIVE DropLeadingEmpty(_)
DropLeadingEmpty(fields) ==
    IF fields = <<>> THEN <<>>
    ELSE IF Head(fields) = "" THEN DropLeadingEmpty(Tail(fields))
    ELSE fields

\* str.split("\t") of what is left: the empty string gives one empty field
SplitTabs(fields) == IF fields = <<>> THEN <<"">> ELSE fields

\* run_gsea.py line 16: line.strip().split("\t"); the tabs at both ends are
\* whitespace and go with the newline
strip_split(line) == SplitTabs(DropLeadingEmpty(DropTrailingEmpty(line)))

\* data_parser.py line 120: line.rstrip().split('\t')
rstrip_split(line) == SplitTabs(DropTrailingEmpty(line))

\* run_gsea.py lines 13-17: the dict comprehension over the lines of the file
RECURSIVE load_custom_gmt(_, _)
load_custom_gmt(lines, acc) ==
    IF lines = <<>> THEN acc
    ELSE LET parts == strip_split(Head(lines)) IN
         IF Len(parts) > 2
         THEN load_custom_gmt(Tail(lines),
                  OrderedSet(acc, parts[1], SubSeq(parts, 3, Len(parts))))
         ELSE load_custom_gmt(Tail(lines), acc)

InitGmt ==
    /\ gmt_parser \in {"load_custom_gmt", "parse_gmt_file"}
    /\ gmt_pc = IF gmt_parser = "load_custom_gmt" THEN "call" ELSE "parse"
    /\ gmt_file \in SeqsUpTo(GmtLines(MaxGmtFields), MaxGmtLines)
    /\ gmt_nread = 0
    /\ gmt_pathways = <<>>
    /\ gmt_err = ""
    /\ IdlePipe
    /\ IdleSid
    /\ IdlePq
    /\ IdleGsea
    /\ IdleMap
    /\ IdleInteractions
    /\ IdleLoaders
    /\ IdleCfg
    /\ IdleOverlap

\* run_gsea.py lines 7-17
LoadCustomGmt ==
    /\ gmt_pc = "call"
    /\ gmt_pathways' = load_custom_gmt(gmt_file, <<>>)
    /\ gmt_pc' = "returned"
    /\ UNCHANGED <<gmt_parser, gmt_file, gmt_nread, gmt_err>>
    /\ UNCHANGED notGmt

\* data_parser.py lines 119-128: one iteration of "for line in f"
ParseGmtLine ==
    /\ gmt_pc = "parse"
    /\ gmt_nread < Len(gmt_file)
    /\ LET split_line == rstrip_split(gmt_file[gmt_nread + 1]) IN
          IF Len(split_line) < 2
          THEN /\ gmt_err' = "Bad line in the GMT file"
               /\ gmt_pc' = "raised"
               /\ UNCHANGED <<gmt_nread, gmt_pathways>>
          ELSE /\ gmt_pathways' = OrderedSet(gmt_pathways, split_line[1],
                                             SubSeq(split_line, 3, Len(split_line)))
               /\ gmt_nread' = gmt_nread + 1
               /\ UNCHANGED <<gmt_pc, gmt_err>>
    /\ UNCHANGED <<gmt_parser, gmt_file>>
    /\ UNCHANGED notGmt

\* data_parser.py line 130
ParseGmtReturn ==
    /\ gmt_pc = "parse"
    /\ gmt_nread = Len(gmt_file)
    /\ gmt_pc' = "returned"
    /\ UNCHANGED <<gmt_parser, gmt_file, gmt_nread, gmt_pathways, gmt_err>>
    /\ UNCHANGED notGmt

NextGmt ==
    \/ LoadCustomGmt
    \/ ParseGmtLine
    \/ ParseGmtReturn

SpecGmt == InitGmt /\ [][NextGmt]_vars

----------------------------------------------------------------------------
\* find_overlap called on the same two lists in successive runs.  Every run
\* builds set(list1) & set(list2) and turns it into a list with list(), which
\* lists the strings in the iteration order of the set.  That order follows
\* the string hashes, and the interpreter draws the hash seed when it starts:
\* within one interpreter the order of a set is fixed, a new interpreter may
\* list the same set in another order.

MaxOverlapLen == 2      \* genes per argument list
MaxOverlapRuns == 2     \* runs of find_overlap that are compared

OverlapGenes == {"BRCA1", "EGFR", "TP53"}

\* list(set(list1) & set(list2)) in an interpreter whose sets list the genes
\* in the order hash_order
find_overlap_list(list1, list2, order) ==
    SelectSeq(order, LAMBDA g : g \in find_overlap(Range(list1), Range(list2)))

InitOverlap ==
    /\ ov_list1 \in SeqsUpTo(OverlapGenes, MaxOverlapLen)
    /\ ov_list2 \in SeqsUpTo(OverlapGenes, MaxOverlapLen)
    /\ hash_order = <<>>
    /\ ov_out = <<>>
    /\ IdlePipe /\ IdleSid /\ IdlePq /\ IdleGsea
    /\ IdleMap /\ IdleInteractions /\ IdleLoaders /\ IdleCfg /\ IdleGmt

\* python3 starts: the hash seed, and with it the order of every set of
\* strings, is drawn for this process
StartInterpreter ==
    /\ Len(ov_out) < MaxOverlapRuns
    /\ hash_order' \in Perms(OverlapGenes)
    /\ hash_order' # hash_order
    /\ UNCHANGED <<ov_list1, ov_list2, ov_out>>
    /\ UNCHANGED notOverlap

\* find_overlap(list1, list2) runs in the current interpreter
RunFindOverlap ==
    /\ hash_order # <<>>
    /\ Len(ov_out) < MaxOverlapRuns
    /\ ov_out' = Append(ov_out, find_overlap_list(ov_list1, ov_list2, hash_order))
    /\ UNCHANGED <<ov_list1, ov_list2, hash_order>>
    /\ UNCHANGED notOverlap

NextOverlap ==
    \/ StartInterpreter
    \/ RunFindOverlap

SpecOverlap == InitOverlap /\ [][NextOverlap]_vars

----------------------------------------------------------------------------
\* Claims about the overlap score

\* the four counts of the score formula, every list counted entry by entry
EntryCounts(g2p, p2g, paths, tgt, gene) ==
    [d |-> Cardinality({i \in 1..Len(g2p[gene]) : g2p[gene][i] \in Range(paths)}),
     t |-> Cardinality({i \in 1..Len(g2p[tgt]) : gene \in Range(p2g[g2p[tgt][i]])}),
     D |-> Len(paths),
     T |-> Len(g2p[tgt])]

\* the four counts of the score formula, every pathway ID counted once
DistinctCounts(g2p, p2g, paths, tgt, gene) ==
    [d |-> Cardinality(Range(g2p[gene]) \cap Range(paths)),
     t |-> Cardinality({p \in Range(g2p[tgt]) : gene \in Range(p2g[p])}),
     D |-> Cardinality(Range(paths)),
     T |-> Cardinality(Range(g2p[tgt]))]

FormulaHolds(score, c) == RatEq(score, <<c.d + c.t, c.D + c.T>>)

Scored == pc \in {"write", "scored"}

\* C1: every gene of the overlap gets score = (d + t) / (D + T), also when a
\* pathway ID is repeated in the disease list or in a gene's pathway list.
\* d, t, D and T are counted the same way: all by list entry, or all by
\* distinct pathway ID.
C1_ScoreFormula ==
    Scored =>
        \A gene \in DOMAIN scores :
            \/ FormulaHolds(scores[gene],
                   EntryCounts(index.gene2pathways, index.pathway2genes,
                               disease_pathways, target, gene))
            \/ FormulaHolds(scores[gene],
                   DistinctCounts(index.gene2pathways, index.pathway2genes,
                                  disease_pathways, target, gene))

\* C2: in the pipeline every gene of the overlap receives a score, and the
\* score is greater than 0 and at most 1: 0 < d + t <= D + T.
C2_ScoreRange ==
    /\ pc = "score" =>
          calculate_scores(overlap, index.gene2pathways, index.pathway2genes,
                           disease_pathways, target).raised = ""
    /\ Scored =>
          /\ DOMAIN scores = Range(overlap)
          /\ Range(overlap) = disease_genes \cap target_genes
          /\ \A gene \in DOMAIN scores :
                /\ 0 < scores[gene][1]
                /\ scores[gene][1] <= scores[gene][2]

\* two genes scored, one of them strictly below 1, with a repeated pathway ID
C2_Witness ==
    /\ pc = "scored"
    /\ Len(overlap) = 2
    /\ \E gene \in DOMAIN scores : scores[gene][1] < scores[gene][2]
    /\ \E g \in DOMAIN index.gene2pathways :
          Len(index.gene2pathways[g]) > Cardinality(Range(index.gene2pathways[g]))

\* C3: a score computed with D + T = 0 ends in the dedicated degenerate-score
\* error, never in the arithmetic division fault.
C3_DegenerateScoreError ==
    (/\ pc \in {"raised", "returned"}
     /\ overlap # <<>>
     /\ {target} \cup Range(overlap) \subseteq DOMAIN index.gene2pathways
     /\ Len(disease_pathways) + Len(index.gene2pathways[target]) = 0)
    => err = "DegenerateScoreError"

----------------------------------------------------------------------------
\* Claims about the pathway index

CountIn(d, key, v) == IF key \in DOMAIN d THEN Count(d[key], v) ELSE 0

Values(d) == UNION {Range(d[k]) : k \in DOMAIN d}

\* p occurs in g2p[g] as often as g occurs in p2g[p], for all g and p
Consistent(g2p, p2g) ==
    \A g \in DOMAIN g2p \cup Values(p2g), p \in DOMAIN p2g \cup Values(g2p) :
        CountIn(g2p, g, p) = CountIn(p2g, p, g)

\* C10: the two maps of parse_pathway_mapping are mutually consistent after
\* every processed record, and so is the pair it returns.
C10_MapsConsistent ==
    /\ Consistent(gene2pathways, pathway2genes)
    /\ index.set => Consistent(index.gene2pathways, index.pathway2genes)

\* a returned index with a repeated (gene, pathway) record and two pathways
C10_Witness ==
    /\ index.set
    /\ pc = "read_ids"
    /\ Cardinality(DOMAIN index.pathway2genes) = 2
    /\ \E g \in DOMAIN index.gene2pathways, p \in PathwayIDs :
          Count(index.gene2pathways[g], p) = 2

----------------------------------------------------------------------------
\* Claims about the GSEA input built by sid.py

BuildReturned ==
    /\ sid_pc = "idle"
    /\ sid_call.op = "build_gsea_input_for_disease_id"
    /\ sid_err = ""

\* the rows of the cached table that match the call, for one target
MatchingRows(t) ==
    {i \in 1..Len(DISEASE_ASSOC_DATA.rows) :
        LET r == DISEASE_ASSOC_DATA.rows[i] IN
        /\ r.diseaseId = sid_call.disease_id
        /\ r.targetId = t
        /\ (sid_call.datatype # None /\ DISEASE_ASSOC_DATA.has_datatype)
              => r.datatypeId = sid_call.datatype}

SymbolOf(t) == GENE_ID_TO_NAME.items[Lookup(GENE_ID_TO_NAME.items, t)][2]

\* C4: build_gsea_input_for_disease_id gives each target the maximum score of
\* the records matching the disease (and the datatype, when that filter
\* applies), whatever the order of the records and however they are spread
\* over partitions, and independently of the other targets.
C4_MaxPerTarget ==
    BuildReturned =>
        /\ \A t \in TargetIDs :
              /\ t \in DOMAIN sid_agg <=> MatchingRows(t) # {}
              /\ t \in DOMAIN sid_agg =>
                    /\ \E i \in MatchingRows(t) : DISEASE_ASSOC_DATA.rows[i].score = sid_agg[t]
                    /\ \A i \in MatchingRows(t) : DISEASE_ASSOC_DATA.rows[i].score <= sid_agg[t]
        /\ \A t \in DOMAIN sid_agg \cap Keys(GENE_ID_TO_NAME.items) :
              \E k \in 1..Len(sid_out) :
                  sid_out[k] = [symbol |-> SymbolOf(t), globalScore |-> sid_agg[t]]
        /\ Len(sid_out) = Cardinality(DOMAIN sid_agg \cap Keys(GENE_ID_TO_NAME.items))

\* a target with two matching records, the larger score first, beside a
\* record that the disease filter leaves out
C4_Witness ==
    /\ BuildReturned
    /\ \E t \in TargetIDs :
          /\ \E i, j \in MatchingRows(t) :
                /\ i < j
                /\ DISEASE_ASSOC_DATA.rows[i].score > DISEASE_ASSOC_DATA.rows[j].score
          /\ \E k \in 1..Len(sid_out) : sid_out[k].globalScore = 2

\* the targets with a matching record and a symbol in the ID-to-symbol map
ResolvedTargets == {t \in TargetIDs : MatchingRows(t) # {} /\ t \in Keys(GENE_ID_TO_NAME.items)}

\* C24: build_gsea_input_for_disease_id returns exactly one row for each target
\* that has a matching association record and a symbol in the ID-to-symbol map,
\* carrying that symbol; a target without a symbol gets no row, and with no
\* such target (as for a disease without records) the table is empty.  Once
\* the caches are loaded the call raises nothing.
C24_OneRowPerResolvedTarget ==
    (sid_pc = "idle" /\ sid_call.op = "build_gsea_input_for_disease_id" /\ CachesLoaded) =>
        /\ sid_err = ""
        /\ Len(sid_out) = Cardinality(ResolvedTargets)
        /\ \E o \in Perms(ResolvedTargets) :
              \A k \in 1..Len(sid_out) : sid_out[k].symbol = SymbolOf(o[k])
        /\ ResolvedTargets = {} => sid_out = <<>>

\* two targets have a matching record, one of them has no symbol: one row
C24_Witness ==
    /\ BuildReturned
    /\ CachesLoaded
    /\ Len(sid_out) = 1
    /\ \E t, u \in TargetIDs :
          /\ MatchingRows(t) # {} /\ t \in Keys(GENE_ID_TO_NAME.items)
          /\ MatchingRows(u) # {} /\ u \notin Keys(GENE_ID_TO_NAME.items)

----------------------------------------------------------------------------
\* Claims about the loaders and caches of sid.py

\* the public functions that start with load_data()
LoadDataCallers ==
    {"load_data", "resolve_disease_id", "build_gsea_input_for_disease",
     "build_gsea_input_for_disease_id"}

GeneMapsSet == GENE_NAME_TO_ID.set /\ GENE_ID_TO_NAME.set

\* this step's call runs load_data()
RunsLoadData ==
    \/ sid_call'.op \in LoadDataCallers
    \/ sid_call'.op = "validate_input" /\ (~GENE_NAME_TO_ID.set \/ ~DISEASE_NAME_TO_ID.set)

\* this step's call enters _load_associations with the association cache unset:
\* directly, or through load_data once the two loaders before it are through
AssocLoaderRuns ==
    /\ ~DISEASE_ASSOC_DATA.set
    /\ \/ sid_call'.op = "get_genes_associated_with_disease"
       \/ RunsLoadData /\ GENE_NAME_TO_ID'.set /\ GENE_ID_TO_NAME'.set /\ DISEASE_NAME_TO_ID'.set

ConfiguredAssocDir == ResolvePath(ASSOCIATIONS_DIR, environ.SID_ASSOCIATIONS_DIR)
ConfiguredAssocTsv == ResolvePath(ASSOCIATIONS_TSV, environ.SID_ASSOCIATIONS_TSV)

\* the partition directory is configured, present and holds partitions
AssocDirUsable ==
    /\ ConfiguredAssocDir # None
    /\ fs[ConfiguredAssocDir].kind = "dir"
    /\ fs[ConfiguredAssocDir].frames # <<>>

\* the flat source is configured and found
AssocTsvFound ==
    /\ ConfiguredAssocTsv # None
    /\ fs[ConfiguredAssocTsv].kind = "file"

\* C21: _load_associations takes the partition directory whenever it is present
\* and non-empty; otherwise the flat source when it is configured and found
\* (its rows, or a rejection for a missing column); it fails with the
\* missing-data error only when neither source is there, and then the cache
\* stays unset.
C21_SourcePriority ==
    [][AssocLoaderRuns =>
          /\ AssocDirUsable =>
                /\ DISEASE_ASSOC_DATA'.set
                /\ DISEASE_ASSOC_DATA'.rows = Concat(fs[ConfiguredAssocDir].frames)
          /\ (~AssocDirUsable /\ AssocTsvFound) =>
                IF fs[ConfiguredAssocTsv].has_columns
                THEN /\ DISEASE_ASSOC_DATA'.set
                     /\ DISEASE_ASSOC_DATA'.rows = fs[ConfiguredAssocTsv].rows
                ELSE ~DISEASE_ASSOC_DATA'.set /\ sid_err' = "ValueError"
          /\ (~AssocDirUsable /\ ~AssocTsvFound) =>
                ~DISEASE_ASSOC_DATA'.set /\ sid_err' = "FileNotFoundError"
          /\ sid_err' = "FileNotFoundError" => (~AssocDirUsable /\ ~AssocTsvFound)]_vars

\* C22: a cache that holds a value keeps it through every call: no loader
\* rebuilds it, whatever the data sources are set to afterwards.
C22_CachesBuiltOnce ==
    [][/\ GENE_NAME_TO_ID.set => GENE_NAME_TO_ID' = GENE_NAME_TO_ID
       /\ GENE_ID_TO_NAME.set => GENE_ID_TO_NAME' = GENE_ID_TO_NAME
       /\ DISEASE_NAME_TO_ID.set => DISEASE_NAME_TO_ID' = DISEASE_NAME_TO_ID
       /\ DISEASE_ASSOC_DATA.set => DISEASE_ASSOC_DATA' = DISEASE_ASSOC_DATA]_vars

\* load_data returned after the target directory was reconfigured to one with
\* other rows: the gene maps are still those of the directory of SID_TARGET_DIR
C22_Witness ==
    /\ sid_call.op = "load_data"
    /\ sid_err = ""
    /\ TARGET_DIR = CliTargetDir
    /\ fs[CliTargetDir] = [kind |-> "dir", parts |-> <<PartitionOf("rows", TargetRowsAt(CliTargetDir))>>]
    /\ GENE_ID_TO_NAME.set
    /\ GENE_ID_TO_NAME.items = TargetRowsAt(EnvTargetDir)
    /\ DISEASE_ASSOC_DATA.set

\* C23: a load_data call either leaves all caches populated, or fails and has
\* populated none of them.
C23_LoadDataAtomic ==
    [][sid_call'.op = "load_data" =>
          \/ /\ sid_err' = ""
             /\ GENE_NAME_TO_ID'.set /\ GENE_ID_TO_NAME'.set
             /\ DISEASE_NAME_TO_ID'.set /\ DISEASE_ASSOC_DATA'.set
          \/ /\ sid_err' # ""
             /\ UNCHANGED <<GENE_NAME_TO_ID, GENE_ID_TO_NAME, DISEASE_NAME_TO_ID,
                            DISEASE_ASSOC_DATA>>]_vars

ConfiguredTargetDir == ResolvePath(TARGET_DIR, environ.SID_TARGET_DIR)

\* the target directory is there and gives at least one id -> symbol pair
TargetDirUsable ==
    /\ ConfiguredTargetDir # None
    /\ fs[ConfiguredTargetDir].kind = "dir"
    /\ IdToSymbol(fs[ConfiguredTargetDir].parts, <<>>) # <<>>

\* C29: the two gene maps are unset together or set together, the symbol -> ID
\* map being built from the ID -> symbol map; a call that enters
\* _load_gene_maps with the maps unset sets both when the target directory is
\* usable and otherwise fails leaving both unset, whatever happened before.
C29_GeneMapsPaired ==
    /\ [](/\ GENE_NAME_TO_ID.set <=> GENE_ID_TO_NAME.set
          /\ GENE_ID_TO_NAME.set =>
                GENE_NAME_TO_ID.items = NameToId(GENE_ID_TO_NAME.items, <<>>))
    /\ [][(RunsLoadData /\ ~GeneMapsSet) =>
             IF TargetDirUsable
             THEN /\ GENE_ID_TO_NAME'.set /\ GENE_NAME_TO_ID'.set
                  /\ GENE_ID_TO_NAME'.items = IdToSymbol(fs[ConfiguredTargetDir].parts, <<>>)
             ELSE /\ ~GENE_ID_TO_NAME'.set /\ ~GENE_NAME_TO_ID'.set
                  /\ sid_err' \in {"FileNotFoundError", "ValueError"}]_vars

\* load_data failed on a target directory whose only file cannot be read
C29_Witness ==
    /\ sid_call.op = "load_data"
    /\ sid_err = "ValueError"
    /\ TARGET_DIR = CliTargetDir
    /\ fs[CliTargetDir] = [kind |-> "dir", parts |-> <<PartitionOf("unreadable", <<>>)>>]
    /\ ~GENE_ID_TO_NAME.set /\ ~GENE_NAME_TO_ID.set

----------------------------------------------------------------------------
\* Claims about the output of run.py main

\* C27: the score table, header included, is on stdout only after
\* calculate_scores has returned the scores of all genes of the overlap; a run
\* that failed while parsing the mapping, reading the disease pathways,
\* deriving the gene sets or scoring has written nothing to stdout.
C27_OutputAfterScoring ==
    /\ stdout # <<>> =>
          /\ pc = "scored"
          /\ err = ""
          /\ calculate_scores(overlap, index.gene2pathways, index.pathway2genes,
                              disease_pathways, target) = Return(scores)
          /\ DOMAIN scores = Range(overlap)
          /\ stdout[1] = <<"GENE", "SCORE">>
          /\ Len(stdout) = 1 + Len(overlap)
    /\ pc = "failed" => stdout = <<>>
    /\ pc = "scored" => stdout # <<>>

\* a table of two genes is on stdout
C27_Witness ==
    /\ pc = "scored"
    /\ Len(overlap) = 2
    /\ Len(stdout) = 3

\* every key of the two maps has at least one entry
NoEmptyList(g2p, p2g) ==
    /\ \A gene \in DOMAIN g2p : g2p[gene] # <<>>
    /\ \A pathwayID \in DOMAIN p2g : p2g[pathwayID] # <<>>

\* C28: every key of gene2pathways and of pathway2genes maps to a non-empty
\* list, while the file is parsed and in the returned pair; so a target found
\* in the index has T >= 1, the denominator D + T is at least 1 also with an
\* empty disease-pathway list, and the pipeline never ends in
\* ZeroDivisionError.
C28_NoEmptyPathwayList ==
    /\ NoEmptyList(gene2pathways, pathway2genes)
    /\ NoEmptyList(index.gene2pathways, index.pathway2genes)
    /\ target \in DOMAIN index.gene2pathways =>
          /\ Len(index.gene2pathways[target]) >= 1
          /\ ScoreDenominator(index.gene2pathways, disease_pathways, target) >= 1
    /\ err # "ZeroDivisionError"

\* the pipeline has scored a target of the index against an empty
\* disease-pathway list
C28_Witness ==
    /\ pc = "scored"
    /\ disease_pathways = <<>>
    /\ target \in DOMAIN index.gene2pathways

----------------------------------------------------------------------------
\* Claims about find_overlap

\* C26: all runs of find_overlap on the same two lists return the same list,
\* in the same order.
C26_OverlapOrderRepeats ==
    \A i, j \in 1..Len(ov_out) : ov_out[i] = ov_out[j]

----------------------------------------------------------------------------
\* Claims about the GMT parsers

\* the lines with fewer than three tab-separated fields
ShortRows == {i \in 1..Len(gmt_file) : Len(gmt_file[i]) < 3}

\* C25: a GMT file with a row of fewer than three fields is never parsed to
\* the end: the parser fails at that row instead of returning a gene-set map.
C25_ShortRowFatal ==
    gmt_pc = "returned" => ShortRows = {}

----------------------------------------------------------------------------
\* Claims about parse_associations_parquet

\* the scores of the records of target t that match the arguments, over all
\* partitions that can be read
ParquetMatchingScores(t) ==
    UNION {{pq_dir[f].rows[i].score : i \in {j \in 1..Len(pq_dir[f].rows) :
                /\ pq_dir[f].rows[j].targetId = t
                /\ pq_dir[f].rows[j].diseaseId = pq_args.disease
                /\ pq_dir[f].rows[j].datatypeId = pq_args.datatype}} :
           f \in {g \in 1..Len(pq_dir) : pq_dir[g].readable}}

\* C5: parse_associations_parquet maps every target to the maximum score of its
\* matching records over all partitions, whatever the order of the rows and
\* of the partitions.
C5_ParquetMax ==
    pq_pc = "done" =>
        \A t \in TargetIDs :
            /\ t \in DOMAIN target2score <=> ParquetMatchingScores(t) # {}
            /\ t \in DOMAIN target2score =>
                  /\ target2score[t] \in ParquetMatchingScores(t)
                  /\ \A x \in ParquetMatchingScores(t) : x <= target2score[t]

----------------------------------------------------------------------------
\* Claims about the q-values of run_gsea_from_tsv

\* the values p_k * n / k of the ranks k >= r that hold a number
FromRank(r) ==
    {<<res_pval[bh_order[k]][1] * Len(res_pval), res_pval[bh_order[k]][2] * k>> :
        k \in {j \in r..Len(res_pval) : ~IsNaN(res_pval[bh_order[j]])}}

\* C6: when the result had a pval column and no qval column, the q-value of
\* the row at rank r (rows ranked by ascending p) is the least p_k * n / k over
\* the ranks k >= r, at most 1, and it sits on the row it was computed for; a
\* row whose p-value is no number gets 1.
C6_BenjaminiHochberg ==
    bh_pc = "computed" =>
        /\ res_cols.qval
        /\ Len(res_qval) = Len(res_pval)
        /\ bh_order \in SortOrders(res_pval)
        /\ \A r \in 1..Len(res_pval) :
              LET row == bh_order[r] IN
              /\ ~IsNaN(res_qval[row])
              /\ IF IsNaN(res_pval[row]) THEN RatEq(res_qval[row], <<1, 1>>)
                 ELSE \E m \in FromRank(r) :
                         /\ \A x \in FromRank(r) : RatLeq(m, x)
                         /\ RatEq(res_qval[row], IF m[1] > m[2] THEN <<1, 1>> ELSE m)

\* three rows not in p-value order, one q-value lowered by a later rank, one clipped
C6_Witness ==
    /\ bh_pc = "computed"
    /\ Len(res_pval) = 3
    /\ bh_order[1] # 1
    /\ \A i \in 1..3 : ~IsNaN(res_pval[i])
    /\ \E i \in 1..3 : res_pval[i][1] > res_pval[i][2] /\ RatEq(res_qval[i], <<1, 1>>)
    /\ \E r \in 1..3 :
          /\ ~RatLeq(QRaw(res_pval, bh_order)[r], res_qval[bh_order[r]])
          /\ ~RatEq(res_qval[bh_order[r]], <<1, 1>>)

----------------------------------------------------------------------------
\* Claims about the term labels of run_gsea_from_tsv

\* the bracket pairs of a label: "[" at i, "]" at j, something other than "]"
\* in between
BracketPairs(s) ==
    {pr \in (1..Len(s)) \X (1..Len(s)) :
        /\ s[pr[1]] = "[" /\ s[pr[2]] = "]"
        /\ pr[2] > pr[1] + 1
        /\ \A k \in (pr[1] + 1)..(pr[2] - 1) : s[k] # "]"}

\* the pairs that close last
LastBracketPairs(s) ==
    {pr \in BracketPairs(s) : \A other \in BracketPairs(s) : other[2] <= pr[2]}

\* the label without the positions i..j, trimmed
WithoutPair(s, pr) == Strip(SubSeq(s, 1, pr[1] - 1) \o SubSeq(s, pr[2] + 1, Len(s)))

\* C7: the ID is the text inside the last bracket pair of the label and the
\* name is the label with that pair removed and trimmed; a label without a
\* bracket pair has the empty ID.  Where the last closing bracket ends more than
\* one pair, any of them is accepted.
C7_LastBracketPair ==
    tm_pc = "done" =>
        IF BracketPairs(term_label) = {} THEN term_id = <<>>
        ELSE \E pr \in LastBracketPairs(term_label) :
                /\ term_id = SubSeq(term_label, pr[1] + 1, pr[2] - 1)
                /\ term_name = WithoutPair(term_label, pr)

----------------------------------------------------------------------------
\* Claims about filter_pathway_ids_by_pvalue

\* the filters that apply: requested, and their column is there
PvalApplies == ft_args.pval_threshold.given /\ "pval" \in ft_df.cols
FdrApplies == ft_args.fdr_threshold.given /\ "qval" \in ft_df.cols
NesApplies == ft_args.nes_positive /\ "NES" \in ft_df.cols

\* ft_out holds exactly the IDs of the rows in keep, in row order
ReturnsRows(keep) ==
    /\ Len(ft_out) = Cardinality(keep)
    /\ \A i \in keep : ft_out[Cardinality({j \in keep : j <= i})] = ft_df.rows[i].ID

\* the rows that pass every filter that applies
PassAll ==
    {i \in 1..Len(ft_df.rows) :
        /\ PvalApplies => ft_df.rows[i].pval <= ft_args.pval_threshold.value
        /\ FdrApplies => ft_df.rows[i].qval <= ft_args.fdr_threshold.value
        /\ NesApplies => ft_df.rows[i].NES > 0}

PassOverride ==
    {i \in 1..Len(ft_df.rows) :
        /\ IF FdrApplies THEN ft_df.rows[i].qval <= ft_args.fdr_threshold.value
           ELSE PvalApplies => ft_df.rows[i].pval <= ft_args.pval_threshold.value
        /\ NesApplies => ft_df.rows[i].NES > 0}

\* C9: when fdr_threshold is given and the frame has a qval column the rows
\* are filtered by qval <= fdr_threshold and the p-value threshold is not
\* applied; the p-value threshold is applied only otherwise.
C9_FdrOverridesPval ==
    ft_pc = "returned" => ReturnsRows(PassOverride)

----------------------------------------------------------------------------
\* Claims about parse_pathway_mapping on a given file

\* the label up to its first space (empty when the label starts with one)
UpToSpace(label) ==
    IF \E i \in 1..Len(label) : label[i] = " "
    THEN SubSeq(label, 1, (CHOOSE i \in 1..Len(label) :
                              label[i] = " " /\ \A k \in 1..(i - 1) : label[k] # " ") - 1)
    ELSE label

\* the lines consumed so far that are records of the fixed organism
HumanRecords ==
    {i \in 1..nread : Len(mapping_file[i]) = 8 /\ mapping_file[i][8] = "Homo sapiens"}

\* list holds, in file order, field val of the records in recs
ListsField(list, recs, val) ==
    /\ Len(list) = Cardinality(recs)
    /\ \A i \in recs : list[Cardinality({j \in recs : j <= i})] = mapping_file[i][val]

\* C11: the index holds exactly the records whose species field is "Homo
\* sapiens", keyed by the gene label up to its first space; a record of another
\* species adds nothing and raises nothing.
C11_SpeciesFilter ==
    pc \in {"parse", "read_ids", "failed"} =>
        /\ DOMAIN gene2pathways = {UpToSpace(mapping_file[i][3]) : i \in HumanRecords}
        /\ \A g \in DOMAIN gene2pathways :
              ListsField(gene2pathways[g],
                         {i \in HumanRecords : UpToSpace(mapping_file[i][3]) = g}, 4)
        /\ DOMAIN pathway2genes = {mapping_file[i][4] : i \in HumanRecords}
        /\ \A p \in DOMAIN pathway2genes :
              /\ Len(pathway2genes[p]) = Cardinality({i \in HumanRecords : mapping_file[i][4] = p})
              /\ \A i \in {k \in HumanRecords : mapping_file[k][4] = p} :
                    pathway2genes[p][Cardinality({j \in HumanRecords :
                                                     mapping_file[j][4] = p /\ j <= i})]
                        = UpToSpace(mapping_file[i][3])
        /\ (pc = "failed" /\ nread > 0) => Len(mapping_file[nread]) # 8

\* a record of another species followed by a record of the organism whose label
\* holds a space; the parser returned
C11_Witness ==
    /\ pc = "read_ids"
    /\ index.set
    /\ Len(mapping_file) = 2
    /\ mapping_file[1][8] = "Mus musculus"
    /\ mapping_file[2][8] = "Homo sapiens"
    /\ mapping_file[2][3] = <<"B", " ", "x">>
    /\ DOMAIN index.gene2pathways = {<<"B">>}

\* the positions of the lines that do not have exactly 8 fields
BadLines == {i \in 1..Len(mapping_file) : Len(mapping_file[i]) # 8}

\* C12: a line that does not have exactly 8 fields stops the parser at that
\* line with an exception, and no index is returned: main's pair is never set
\* when the file holds such a line, whatever records came before it.
C12_NoPartialIndex ==
    /\ index.set => BadLines = {}
    /\ pc = "parse" => \A i \in BadLines : i > nread
    /\ (pc = "failed" /\ nread > 0) =>
          /\ nread \in BadLines
          /\ \A i \in BadLines : i >= nread
          /\ err = "Exception"
          /\ ~index.set

\* a record was inserted, then a bad line raised
C12_Witness ==
    /\ pc = "failed"
    /\ nread = 2
    /\ gene2pathways # EmptyDict
    /\ ~index.set

----------------------------------------------------------------------------
\* Claims about get_disease_genes and get_target_genes in main

\* main is past the call of get_disease_genes
DiseaseGenesReturned == pc \in {"target_genes", "overlap", "score", "write", "scored"}

\* main is past the call of get_target_genes
TargetGenesReturned == pc \in {"overlap", "score", "write", "scored"}

UnknownPathwayListed ==
    \E i \in 1..Len(disease_pathways) : disease_pathways[i] \notin DOMAIN index.pathway2genes

\* C13: get_disease_genes returns the union of the gene lists of the listed
\* pathways; when a listed pathway ID is not in pathway2genes the call raises
\* and main gets no gene set.
C13_DiseaseGenesUnion ==
    /\ DiseaseGenesReturned =>
          /\ ~UnknownPathwayListed
          /\ disease_genes = UNION {Range(index.pathway2genes[disease_pathways[i]]) :
                                       i \in 1..Len(disease_pathways)}
    /\ UnknownPathwayListed =>
          /\ pc \in {"disease_genes", "failed"}
          /\ disease_genes = {}
          /\ pc = "failed" => err = "KeyError"

\* two different pathways listed, their genes differ, the union came back
C13_Witness ==
    /\ pc = "target_genes"
    /\ Len(disease_pathways) = 2
    /\ disease_pathways[1] # disease_pathways[2]
    /\ Range(index.pathway2genes[disease_pathways[1]])
          # Range(index.pathway2genes[disease_pathways[2]])
    /\ Cardinality(disease_genes) = 2

\* C14: get_target_genes returns the genes found on at least one pathway of
\* the target, the union of pathway2genes[p] over gene2pathways[target]; when
\* the target is not in gene2pathways the call raises and main gets no set.
C14_TargetGenesUnion ==
    /\ TargetGenesReturned =>
          /\ target \in DOMAIN index.gene2pathways
          /\ target_genes =
                UNION {Range(index.pathway2genes[index.gene2pathways[target][i]]) :
                          i \in 1..Len(index.gene2pathways[target])}
          /\ target_genes =
                {g \in DOMAIN index.gene2pathways :
                    \E p \in Range(index.gene2pathways[target]) :
                        p \in Range(index.gene2pathways[g])}
    /\ (index.set /\ target \notin DOMAIN index.gene2pathways) =>
          /\ ~TargetGenesReturned
          /\ target_genes = {}
    /\ (pc = "failed" /\ err = "KeyError") =>
          UnknownPathwayListed \/ target \notin DOMAIN index.gene2pathways

\* the target is on two pathways, one shared with another gene
C14_Witness ==
    /\ pc = "overlap"
    /\ Cardinality(Range(index.gene2pathways[target])) = 2
    /\ Cardinality(target_genes) = 2
    /\ \E p \in Range(index.gene2pathways[target]) :
          Range(index.pathway2genes[p]) = {target}

----------------------------------------------------------------------------
\* Claims about parse_interactions and the network

\* the records consumed so far that carry one of the two markers
Directed ==
    {i \in 1..in_nread :
        /\ Len(interactions_file.records[i]) = 5
        /\ interactions_file.records[i][4] \in {"->", "<-"}}

\* C15: for well-formed 5-field records the list holds, in record order, the
\* edge (gene1, gene2) for each record with direction "->" and the edge
\* (gene2, gene1) for each record with direction "<-", and nothing for a
\* record with another direction; such a record raises nothing.
C15_DirectedEdges ==
    /\ in_pc \in {"records", "returned", "built", "failed"} =>
          /\ Len(interactions) = Cardinality(Directed)
          /\ \A i \in Directed :
                LET rec == interactions_file.records[i]
                    edge == interactions[Cardinality({j \in Directed : j <= i})]
                IN  edge = IF rec[4] = "->" THEN <<rec[1], rec[2]>> ELSE <<rec[2], rec[1]>>
    /\ (in_pc = "failed" /\ in_nread > 0) =>
          /\ in_err = "Bad line in the Reactome file"
          /\ Len(interactions_file.records[in_nread]) # 5
    /\ (in_pc = "failed" /\ in_nread = 0) =>
          in_err \in {"Cannot open provided Reactome file", "Reactome file problem"}
    /\ in_pc \in {"returned", "built"} => in_nread = Len(interactions_file.records)

\* a reverse record, then a record with no marker; the list came back
C15_Witness ==
    /\ in_pc = "returned"
    /\ Len(interactions_file.records) = 2
    /\ interactions_file.records[1][4] = "<-"
    /\ interactions_file.records[1][1] # interactions_file.records[1][2]
    /\ interactions_file.records[2][4] = "-"
    /\ interactions = <<<<interactions_file.records[1][2], interactions_file.records[1][1]>>>>

\* C16: a first line that is not the expected header Gene1, Gene2, Annotation,
\* Direction, Score (a missing header, or a header differing in any field) is
\* fatal: the parser raises before it processes any record.
C16_HeaderChecked ==
    (in_pc \notin {"open", "header"} /\ interactions_file.first_line # ExpectedHeader) =>
        /\ in_pc = "failed"
        /\ in_nread = 0
        /\ interactions = <<>>

\* C17: the network is a directed graph: for distinct genes u and v it has the
\* edge u to v iff some record yields the ordered pair (u, v); one forward
\* record A->B gives the edge A to B and not the edge B to A.
C17_DirectedNetwork ==
    in_pc = "built" =>
        \A u, v \in InteractionGenes :
            u # v => (<<u, v>> \in network.edges <=> <<u, v>> \in Range(interactions))

----------------------------------------------------------------------------
\* Claims about _load_two_column_tsv_to_map

\* the rows with a value in both of the first two columns
CompleteRows == {i \in 1..Len(tc_df.rows) : tc_df.rows[i][1] # NaN /\ tc_df.rows[i][2] # NaN}

\* C18: only the first two columns count; rows with a missing value in either
\* of them are dropped first, and each name maps to the ID of the first
\* remaining row with that name: later rows of the name change nothing.
C18_FirstOccurrenceWins ==
    /\ tc_pc = "returned" =>
          /\ tc_df.ncols >= 2
          /\ Keys(mapped) = {tc_df.rows[i][1] : i \in CompleteRows}
          /\ Len(mapped) = Cardinality(Keys(mapped))
          /\ \A k \in 1..Len(mapped) :
                \E i \in CompleteRows :
                    /\ tc_df.rows[i][1] = mapped[k][1]
                    /\ tc_df.rows[i][2] = mapped[k][2]
                    /\ \A j \in CompleteRows : tc_df.rows[j][1] = mapped[k][1] => i <= j
    /\ tc_pc = "raised" => tc_df.ncols < 2 /\ tc_err = "ValueError"

\* three rows of one name in a three-column file: the first lacks its ID, the
\* second lacks only its third cell, the third carries another ID
C18_Witness ==
    /\ tc_pc = "returned"
    /\ tc_df.ncols = 3
    /\ tc_df.rows = <<<<"N1", NaN, "x">>, <<"N1", "D1", NaN>>, <<"N1", "D2", "x">>>>
    /\ mapped = <<<<"N1", "D1">>>>

----------------------------------------------------------------------------
\* Claims about _load_gene_maps

\* the rows of a file that have both an id and a symbol, when the file can be used
CompleteIn(n) ==
    IF target_dir[n].readable /\ target_dir[n].has_cols
    THEN {i \in 1..Len(target_dir[n].rows) :
             target_dir[n].rows[i][1] # NaN /\ target_dir[n].rows[i][2] # NaN}
    ELSE {}

\* the files that hold id t
Holders(t) ==
    {n \in DOMAIN target_dir : \E i \in CompleteIn(n) : target_dir[n].rows[i][1] = t}

\* C19 for _load_gene_maps: whatever order the directory is listed in, the
\* partitions count in sorted filename order: each id gets the symbol of its
\* first row (with both cells) within the last file, by name, that holds the id.
C19_LastFileFirstRow ==
    gm_pc = "returned" =>
        /\ Keys(gm_id_to_symbol) = {t \in TargetIDs : Holders(t) # {}}
        /\ Len(gm_id_to_symbol) = Cardinality(Keys(gm_id_to_symbol))
        /\ \A k \in 1..Len(gm_id_to_symbol) :
              LET t == gm_id_to_symbol[k][1]
                  last == CHOOSE n \in Holders(t) :
                              \A m \in Holders(t) : NameRank(m) <= NameRank(n)
                  first == CHOOSE i \in CompleteIn(last) :
                              /\ target_dir[last].rows[i][1] = t
                              /\ \A j \in CompleteIn(last) :
                                    target_dir[last].rows[j][1] = t => i <= j
              IN  gm_id_to_symbol[k][2] = target_dir[last].rows[first][2]

\* one id in both files, twice in the later one, the later file listed first
C19_Witness ==
    /\ gm_pc = "returned"
    /\ gm_listing = <<"b.parquet", "a.parquet">>
    /\ target_dir["a.parquet"].rows = <<<<"T1", "S1">>>>
    /\ target_dir["b.parquet"].rows = <<<<"T1", "S2">>, <<"T1", "S1">>>>
    /\ gm_id_to_symbol = <<<<"T1", "S2">>>>

\* the files that hold id t in some row
HoldersOfId(t) ==
    {n \in DOMAIN target_dir :
        /\ target_dir[n].readable /\ target_dir[n].has_cols
        /\ \E i \in 1..Len(target_dir[n].rows) : target_dir[n].rows[i][1] = t}

\* C19 for parse_target_parquet: each id gets the symbol of its first row
\* within the last file, in sorted filename order, that holds the id.
C19_TargetParquetSorted ==
    gm_pc = "returned" =>
        \A k \in 1..Len(gm_id_to_symbol) :
            LET t == gm_id_to_symbol[k][1] IN
            /\ HoldersOfId(t) # {}
            /\ LET last == CHOOSE n \in HoldersOfId(t) :
                               \A m \in HoldersOfId(t) : NameRank(m) <= NameRank(n)
                   first == CHOOSE i \in 1..Len(target_dir[last].rows) :
                               /\ target_dir[last].rows[i][1] = t
                               /\ \A j \in 1..(i - 1) : target_dir[last].rows[j][1] # t
               IN  gm_id_to_symbol[k][2] = target_dir[last].rows[first][2]

\* the value of key k in an ordered dict
ValueOf(items, k) == items[Lookup(items, k)][2]

\* C20: after _load_gene_maps succeeds every ID of the inverse map has a
\* forward entry for its symbol, which maps back to that ID or to an earlier ID
\* of the same symbol; and every forward entry n -> i has inverse[i] = n.
C20_MapsRoundTrip ==
    gm_pc = "returned" =>
        /\ \A k \in 1..Len(gm_id_to_symbol) :
              LET gid == gm_id_to_symbol[k][1]
                  gname == gm_id_to_symbol[k][2]
              IN  /\ gname \in Keys(gm_name_to_id)
                  /\ \/ ValueOf(gm_name_to_id, gname) = gid
                     \/ \E h \in 1..(k - 1) :
                           /\ gm_id_to_symbol[h][2] = gname
                           /\ ValueOf(gm_name_to_id, gname) = gm_id_to_symbol[h][1]
        /\ \A k \in 1..Len(gm_name_to_id) :
              /\ gm_name_to_id[k][2] \in Keys(gm_id_to_symbol)
              /\ ValueOf(gm_id_to_symbol, gm_name_to_id[k][2]) = gm_name_to_id[k][1]

====
